---- MODULE Spec2Model ----
(***************************************************************************)
(* DealBreakr AI: the fit scoring engine (lib/fit-engine.ts), the results  *)
(* page that aggregates claims and calls the engine                        *)
(* (app/(main)/results/[id]/page.tsx) and the analysis request handler     *)
(* (app/api/analyze/route.ts).                                             *)
(*                                                                         *)
(* Numbers: every score in the engine is an integer (each fractional       *)
(* intermediate goes through Math.round before it is stored), so the       *)
(* model computes with exact integer arithmetic; Math.round(n/d) is        *)
(* RoundDiv(n, d).  Category weights are kept in hundredths (0.25 -> 25).  *)
(* Prices and budgets are small integers (think of units of $100,000).     *)
(***************************************************************************)
EXTENDS Integers, Sequences, FiniteSets, TLC

\* null of a numeric field (number | null); every real value is >= 0
Null == -1
\* null of a string field (string | null)
NullStr == "null"

---------------------------------------------------------------------------
(* Generic helpers *)

Max(a, b) == IF a >= b THEN a ELSE b
Min(a, b) == IF a <= b THEN a ELSE b

\* Math.round(n / d) for d > 0: the nearest integer, halves rounded up
RoundDiv(n, d) == (2 * n + d) \div (2 * d)

\* Clamp with the clamping left out
ClampNone(x) == x

\* Math.max(0, Math.min(100, x))
Clamp(x) == Max(0, Min(100, x))

\* JavaScript truthiness of a number | null value
Truthy(x) == x # Null /\ x # 0

RECURSIVE SumSeq(_)
SumSeq(s) == IF s = <<>> THEN 0 ELSE Head(s) + SumSeq(Tail(s))

RECURSIVE ConcatAll(_)
ConcatAll(ss) == IF ss = <<>> THEN <<>> ELSE Head(ss) \o ConcatAll(Tail(ss))

\* Array.prototype.filter
FilterSeq(s, Test(_)) == SelectSeq(s, Test)

\* Array.prototype.some / includes
SomeSeq(s, Test(_)) == \E i \in 1..Len(s) : Test(s[i])
Includes(s, x) == \E i \in 1..Len(s) : s[i] = x

---------------------------------------------------------------------------
(* types/index.ts *)

SCORING_CATEGORIES ==
  << "record_mismatch", "pricing_anomaly", "ownership_title",
     "disclosure_ambiguity", "neighborhood_fit", "renovation_permit" >>

Verdicts == {"verified", "unverified", "contradiction", "marketing"}
Severities == {"info", "caution", "warning", "critical"}
AnalysisStatus == {"pending", "analyzing", "complete", "error"}

\* the snapshot value null (PropertySnapshot | null)
NoSnapshot == [absent |-> TRUE]

\* a PropertySnapshot with every field null
EmptySnapshot ==
  [ beds |-> Null, baths |-> Null, sqft |-> Null, lotSqft |-> Null,
    yearBuilt |-> Null, stories |-> Null, garage |-> NullStr, hoa |-> Null,
    zoning |-> NullStr, taxAssessedValue |-> Null, lastSaleDate |-> NullStr,
    lastSalePrice |-> Null ]

---------------------------------------------------------------------------
(* lib/fit-engine.ts *)

\* getEffectivePrice with the last sale price tried before the tax-assessed value
getEffectivePriceSaleFirst(analysis) ==
  IF Truthy(analysis.listPrice) /\ analysis.listPrice > 0
    THEN analysis.listPrice
  ELSE IF analysis.propertySnapshot = NoSnapshot THEN Null
  ELSE IF Truthy(analysis.propertySnapshot.lastSalePrice)
          /\ analysis.propertySnapshot.lastSalePrice > 0
    THEN analysis.propertySnapshot.lastSalePrice
  ELSE IF Truthy(analysis.propertySnapshot.taxAssessedValue)
          /\ analysis.propertySnapshot.taxAssessedValue > 0
    THEN analysis.propertySnapshot.taxAssessedValue
  ELSE Null

\* getEffectivePrice: listPrice > taxAssessedValue > lastSalePrice
getEffectivePrice(analysis) ==
  IF Truthy(analysis.listPrice) /\ analysis.listPrice > 0
    THEN analysis.listPrice
  ELSE IF analysis.propertySnapshot = NoSnapshot THEN Null
  ELSE IF Truthy(analysis.propertySnapshot.taxAssessedValue)
          /\ analysis.propertySnapshot.taxAssessedValue > 0
    THEN analysis.propertySnapshot.taxAssessedValue
  ELSE IF Truthy(analysis.propertySnapshot.lastSalePrice)
          /\ analysis.propertySnapshot.lastSalePrice > 0
    THEN analysis.propertySnapshot.lastSalePrice
  ELSE Null

NoPriceDetails == "No price data available. Cannot evaluate budget fit."

\* BudgetScore with the interpolation running from 60 down to 10
BudgetScoreSteep(profile, analysis) ==
  LET price == getEffectivePrice(analysis) IN
  IF Truthy(price) THEN
    IF price <= profile.budgetMax THEN 100
    ELSE IF price <= profile.budgetStretch THEN
      LET overBy == price - profile.budgetMax
          stretchRange == profile.budgetStretch - profile.budgetMax
      IN  RoundDiv(60 * stretchRange - 50 * overBy, stretchRange)
    ELSE
      LET overStretch == price - profile.budgetStretch IN
      IF profile.budgetStretch = 0 THEN 0
      ELSE Max(0, 15 - RoundDiv(50 * overStretch, profile.budgetStretch))
  ELSE 40

\* 1. Budget Fit: the score
BudgetScore(profile, analysis) ==
  LET price == getEffectivePrice(analysis) IN
  IF Truthy(price) THEN
    IF price <= profile.budgetMax THEN 100
    ELSE IF price <= profile.budgetStretch THEN
      LET overBy == price - profile.budgetMax
          stretchRange == profile.budgetStretch - profile.budgetMax
      IN  RoundDiv(60 * stretchRange - 40 * overBy, stretchRange)
    ELSE
      LET overStretch == price - profile.budgetStretch IN
      \* budgetStretch = 0 makes pctOver Infinity and the score Math.max(0, -Infinity)
      IF profile.budgetStretch = 0 THEN 0
      ELSE Max(0, 15 - RoundDiv(50 * overStretch, profile.budgetStretch))
  ELSE 40

\* 1. Budget Fit: the details text (its fixed leading part)
BudgetDetails(profile, analysis) ==
  LET price == getEffectivePrice(analysis) IN
  IF Truthy(price) THEN
    IF price <= profile.budgetMax THEN "At $price, within your budget."
    ELSE IF price <= profile.budgetStretch
      THEN "At $price, over preferred max but within stretch."
    ELSE "At $price, exceeds your stretch budget."
  ELSE NoPriceDetails

\* 1. Budget Fit: the suggestions pushed
BudgetSuggestions(profile, analysis) ==
  LET price == getEffectivePrice(analysis) IN
  IF Truthy(price) /\ price > profile.budgetMax THEN
    IF price <= profile.budgetStretch
      THEN << [category |-> "watch_out", title |-> "Over your preferred budget",
               priority |-> "high"] >>
      ELSE << [category |-> "watch_out", title |-> "Significantly over budget",
               priority |-> "high"] >>
  ELSE <<>>

\* 2. Size & Layout: the penalties for beds, baths and sqft
BedsPenalty(profile, snapshot) ==
  IF snapshot.beds # Null /\ profile.bedsMin > 0 THEN
    IF snapshot.beds < profile.bedsMin
      THEN (profile.bedsMin - snapshot.beds) * 25 ELSE 0
  ELSE IF profile.bedsMin > 0 THEN 10
  ELSE 0

BathsPenalty(profile, snapshot) ==
  IF snapshot.baths # Null /\ profile.bathsMin > 0 THEN
    IF snapshot.baths < profile.bathsMin THEN 20 ELSE 0
  ELSE IF profile.bathsMin > 0 THEN 5
  ELSE 0

\* SqftPenalty without the ceiling of 35
SqftPenaltyUncapped(profile, snapshot) ==
  IF profile.sqftMin > 0 THEN
    IF snapshot.sqft # Null THEN
      IF snapshot.sqft < profile.sqftMin
        THEN RoundDiv((profile.sqftMin - snapshot.sqft) * 100, profile.sqftMin)
        ELSE 0
    ELSE 10
  ELSE 0

SqftPenalty(profile, snapshot) ==
  IF profile.sqftMin > 0 THEN
    IF snapshot.sqft # Null THEN
      IF snapshot.sqft < profile.sqftMin
        THEN Min(35, RoundDiv((profile.sqftMin - snapshot.sqft) * 100, profile.sqftMin))
        ELSE 0
    ELSE 10
  ELSE 0

SizeScore(profile, analysis) ==
  LET snapshot == analysis.propertySnapshot IN
  IF snapshot # NoSnapshot
    THEN Clamp(100 - BedsPenalty(profile, snapshot) - BathsPenalty(profile, snapshot)
                   - SqftPenalty(profile, snapshot))
    ELSE Clamp(35)

\* the claim statements of the model and whether statement.toLowerCase()
\* includes "noise", "traffic", "highway" or "airport"
QuietStatement == "Located on a quiet cul-de-sac"
NoisyStatement == "Some Traffic noise from the nearby highway"
HasNoiseKeyword(statement) == statement = NoisyStatement

\* 3. Accessibility: analysis.claims filtered to the neighborhood noise claims
noiseClaims(analysis) ==
  LET IsNoise(c) == c.category = "neighborhood_fit" /\ HasNoiseKeyword(c.statement)
  IN  FilterSeq(analysis.claims, IsNoise)

hasAccessibilityNeeds(profile) ==
  LET NotNone(n) == n # "none"
  IN  Len(FilterSeq(profile.accessibilityNeeds, NotNone)) > 0

StoriesOf(analysis) ==
  IF analysis.propertySnapshot = NoSnapshot THEN Null
  ELSE analysis.propertySnapshot.stories

\* StairsSeverity with every need flagged as a concern
StairsSeverityConcern(need) == "concern"

\* 3. Accessibility: the severity of the flag of a need on a multi-story home
StairsSeverity(need) == IF need = "wheelchair_full" THEN "blocker" ELSE "concern"

\* 3. Accessibility: one iteration of the loop over profile.accessibilityNeeds;
\* the penalty subtracted, the flags pushed and the suggestions pushed
NeedStep(need, analysis) ==
  LET stories == StoriesOf(analysis)
      isMultiStory == stories # Null /\ stories > 1
      isSingleStory == stories # Null /\ stories = 1
      snapshot == analysis.propertySnapshot
      None == [penalty |-> 0, flags |-> <<>>, suggestions |-> <<>>]
      stairs ==
        IF need \in {"wheelchair_full", "wheelchair_occasional", "mobility_limited",
                     "chronic_fatigue"} /\ isMultiStory
          THEN [penalty |-> IF need = "wheelchair_full" THEN 50 ELSE 25,
                flags |-> << [need |-> need, severity |-> StairsSeverity(need)] >>,
                suggestions |-> << [category |-> "ask_about",
                                    title |-> "Ask about main floor livability",
                                    priority |-> "high"] >>]
        ELSE IF need \in {"wheelchair_full", "wheelchair_occasional", "mobility_limited"}
                /\ isSingleStory
          THEN [penalty |-> 0,
                flags |-> << [need |-> need, severity |-> "manageable"] >>,
                suggestions |-> <<>>]
        ELSE IF need \in {"wheelchair_full", "wheelchair_occasional", "mobility_limited"}
                /\ stories = Null
          THEN [penalty |-> 15,
                flags |-> << [need |-> need, severity |-> "concern"] >>,
                suggestions |-> <<>>]
        ELSE None
      sensory ==
        IF need = "sensory_sensitivity" /\ Len(noiseClaims(analysis)) > 0
          THEN [penalty |-> 25,
                flags |-> << [need |-> need, severity |-> "concern"] >>,
                suggestions |-> <<>>]
          ELSE None
      oldBuild == snapshot # NoSnapshot /\ Truthy(snapshot.yearBuilt)
                  /\ snapshot.yearBuilt < 1990
      respiratory ==
        IF need = "respiratory" /\ oldBuild
          THEN [penalty |-> 15,
                flags |-> << [need |-> need, severity |-> "concern"] >>,
                suggestions |-> <<>>]
          ELSE None
      aging ==
        IF need = "aging_in_place" /\ isMultiStory
          THEN [penalty |-> 20,
                flags |-> << [need |-> need, severity |-> "concern"] >>,
                suggestions |-> << [category |-> "modify",
                                    title |-> "Aging-in-place modification potential",
                                    priority |-> "medium"] >>]
          ELSE None
  IN  IF need = "none" THEN None
      ELSE [penalty |-> stairs.penalty + sensory.penalty + respiratory.penalty
                        + aging.penalty,
            flags |-> stairs.flags \o sensory.flags \o respiratory.flags \o aging.flags,
            suggestions |-> stairs.suggestions \o sensory.suggestions
                            \o respiratory.suggestions \o aging.suggestions]

\* 3. Accessibility: the loop, run only when the profile has a need other than none
NeedSteps(profile, analysis) ==
  IF hasAccessibilityNeeds(profile)
    THEN [i \in 1..Len(profile.accessibilityNeeds) |->
            NeedStep(profile.accessibilityNeeds[i], analysis)]
    ELSE <<>>

AccessScore(profile, analysis) ==
  LET steps == NeedSteps(profile, analysis)
  IN  Clamp(100 - SumSeq([i \in 1..Len(steps) |-> steps[i].penalty]))

AccessFlags(profile, analysis) ==
  LET steps == NeedSteps(profile, analysis)
  IN  ConcatAll([i \in 1..Len(steps) |-> steps[i].flags])

AccessSuggestions(profile, analysis) ==
  LET steps == NeedSteps(profile, analysis)
  IN  ConcatAll([i \in 1..Len(steps) |-> steps[i].suggestions])

accessWeight(profile) == IF hasAccessibilityNeeds(profile) THEN 30 ELSE 5

\* checkFeaturePresent
checkFeaturePresent(feat, snapshot) ==
  IF snapshot = NoSnapshot THEN "unknown"
  ELSE CASE feat = "single_story" ->
              IF snapshot.stories = 1 THEN "matched"
              ELSE IF Truthy(snapshot.stories) /\ snapshot.stories > 1 THEN "missing"
              ELSE "unknown"
         [] feat = "garage" ->
              IF snapshot.garage # NullStr /\ snapshot.garage # ""
                 /\ snapshot.garage # "None" THEN "matched"
              ELSE IF snapshot.garage = "None" THEN "missing"
              ELSE "unknown"
         [] feat = "no_hoa" ->
              IF snapshot.hoa = Null \/ snapshot.hoa = 0 THEN "matched"
              ELSE IF Truthy(snapshot.hoa) /\ snapshot.hoa > 0 THEN "missing"
              ELSE "unknown"
         [] feat = "low_hoa" ->
              IF snapshot.hoa # Null /\ snapshot.hoa > 0 /\ snapshot.hoa <= 200
                THEN "matched"
              ELSE IF snapshot.hoa # Null /\ snapshot.hoa > 200 THEN "missing"
              ELSE "unknown"
         [] feat = "new_construction" ->
              IF Truthy(snapshot.yearBuilt) /\ snapshot.yearBuilt >= 2020 THEN "matched"
              ELSE IF Truthy(snapshot.yearBuilt) THEN "missing"
              ELSE "unknown"
         [] feat = "yard" ->
              IF Truthy(snapshot.lotSqft) /\ snapshot.lotSqft > 2000 THEN "matched"
              ELSE IF Truthy(snapshot.lotSqft) /\ snapshot.lotSqft <= 2000 THEN "missing"
              ELSE "unknown"
         [] OTHER -> "unknown"

\* checkDealbreaker with single_story violated by every story count other than 1
checkDealbreakerNotOne(feat, snapshot) ==
  IF snapshot = NoSnapshot THEN "unknown"
  ELSE CASE feat = "no_hoa" ->
              IF Truthy(snapshot.hoa) /\ snapshot.hoa > 0 THEN "violated" ELSE "clear"
         [] feat = "pool" -> "unknown"
         [] feat = "single_story" ->
              IF snapshot.stories # 1 THEN "violated" ELSE "clear"
         [] OTHER -> "unknown"

\* checkDealbreaker
checkDealbreaker(feat, snapshot) ==
  IF snapshot = NoSnapshot THEN "unknown"
  ELSE CASE feat = "no_hoa" ->
              IF Truthy(snapshot.hoa) /\ snapshot.hoa > 0 THEN "violated" ELSE "clear"
         [] feat = "pool" -> "unknown"
         [] feat = "single_story" ->
              IF Truthy(snapshot.stories) /\ snapshot.stories > 1
                THEN "violated" ELSE "clear"
         [] OTHER -> "unknown"

\* 4. Feature Match: the entry pushed for one must-have (to matchedFeatures when
\* its status is matched, to missedFeatures otherwise)
MustHaveEntry(feat, snapshot) ==
  [feature |-> feat, importance |-> "must_have",
   status |-> checkFeaturePresent(feat, snapshot)]

NiceToHaveEntry(feat, snapshot) ==
  [feature |-> feat, importance |-> "nice_to_have",
   status |-> checkFeaturePresent(feat, snapshot)]

DealbreakerEntry(feat, snapshot) ==
  [feature |-> feat, importance |-> "dealbreaker",
   status |-> checkDealbreaker(feat, snapshot)]

MatchedFeatures(profile, analysis) ==
  LET snapshot == analysis.propertySnapshot
      IsMatched(e) == e.status = "matched"
  IN  FilterSeq([i \in 1..Len(profile.mustHaves) |->
                   MustHaveEntry(profile.mustHaves[i], snapshot)], IsMatched)
      \o FilterSeq([i \in 1..Len(profile.niceToHaves) |->
                      NiceToHaveEntry(profile.niceToHaves[i], snapshot)], IsMatched)

\* missedFeatures without the unknown branch of the must-haves
MissedFeaturesOnlyMissing(profile, analysis) ==
  LET snapshot == analysis.propertySnapshot
      IsMissing(e) == e.status = "missing"
      IsViolated(e) == e.status = "violated"
  IN  FilterSeq([i \in 1..Len(profile.mustHaves) |->
                   MustHaveEntry(profile.mustHaves[i], snapshot)], IsMissing)
      \o FilterSeq([i \in 1..Len(profile.niceToHaves) |->
                      NiceToHaveEntry(profile.niceToHaves[i], snapshot)], IsMissing)
      \o FilterSeq([i \in 1..Len(profile.dealbreakers) |->
                      DealbreakerEntry(profile.dealbreakers[i], snapshot)], IsViolated)

MissedFeatures(profile, analysis) ==
  LET snapshot == analysis.propertySnapshot
      NotMatched(e) == e.status # "matched"
      IsMissing(e) == e.status = "missing"
      IsViolated(e) == e.status = "violated"
  IN  FilterSeq([i \in 1..Len(profile.mustHaves) |->
                   MustHaveEntry(profile.mustHaves[i], snapshot)], NotMatched)
      \o FilterSeq([i \in 1..Len(profile.niceToHaves) |->
                      NiceToHaveEntry(profile.niceToHaves[i], snapshot)], IsMissing)
      \o FilterSeq([i \in 1..Len(profile.dealbreakers) |->
                      DealbreakerEntry(profile.dealbreakers[i], snapshot)], IsViolated)

\* MissPenalty with a missing nice-to-have costing as much as an unknown must-have
MissPenaltyNiceAsUnknown(e) ==
  CASE e.importance = "must_have" /\ e.status = "missing" -> 18
    [] e.importance = "must_have" -> 8
    [] e.importance = "nice_to_have" -> 8
    [] OTHER -> 50

\* 4. Feature Match: the penalty of one entry of missedFeatures
MissPenalty(e) ==
  CASE e.importance = "must_have" /\ e.status = "missing" -> 18
    [] e.importance = "must_have" -> 8
    [] e.importance = "nice_to_have" -> 5
    [] OTHER -> 50

FeatureScore(profile, analysis) ==
  LET missed == MissedFeatures(profile, analysis)
  IN  Clamp(100 - SumSeq([i \in 1..Len(missed) |-> MissPenalty(missed[i])]))

\* 5. Trust & Risk: Math.round of the trust score
TrustCategoryScore(analysis) == RoundDiv(analysis.trustScore, 1)

\* LifestyleScore with a penalty of 40 for an elderly parent on a multi-story home
LifestyleScoreHarsh(profile, analysis) ==
  LET snapshot == analysis.propertySnapshot
      beds == IF snapshot = NoSnapshot THEN Null ELSE snapshot.beds
      stories == IF snapshot = NoSnapshot THEN Null ELSE snapshot.stories
      multigen == IF profile.situation = "multigenerational" /\ Truthy(beds) /\ beds >= 4
                    THEN 15 ELSE 0
      retiring == IF profile.situation = "retiring" /\ stories = 1 THEN 15 ELSE 0
      elderly == IF Includes(profile.householdMembers, "elderly_parent")
                   THEN IF Truthy(stories) /\ stories > 1 THEN -40
                        ELSE IF stories = 1 THEN 10 ELSE 0
                   ELSE 0
  IN  Clamp(65 + multigen + retiring + elderly)

\* 6. Lifestyle Fit
LifestyleScore(profile, analysis) ==
  LET snapshot == analysis.propertySnapshot
      beds == IF snapshot = NoSnapshot THEN Null ELSE snapshot.beds
      stories == StoriesOf(analysis)
      multigen == IF profile.situation = "multigenerational" /\ Truthy(beds) /\ beds >= 4
                    THEN 15 ELSE 0
      retiring == IF profile.situation = "retiring" /\ stories = 1 THEN 15 ELSE 0
      elderly == IF Includes(profile.householdMembers, "elderly_parent")
                   THEN IF Truthy(stories) /\ stories > 1 THEN -20
                        ELSE IF stories = 1 THEN 10 ELSE 0
                   ELSE 0
  IN  Clamp(65 + multigen + retiring + elderly)

LifestyleSuggestions(profile, analysis) ==
  LET stories == StoriesOf(analysis) IN
  (IF Includes(profile.householdMembers, "elderly_parent")
      /\ Truthy(stories) /\ stories > 1
     THEN << [category |-> "ask_about", title |-> "Elderly parent accommodations",
              priority |-> "high"] >>
     ELSE <<>>)
  \o (IF Includes(profile.householdMembers, "family_young_kids")
        THEN << [category |-> "look_for", title |-> "Child safety check",
                 priority |-> "medium"] >>
        ELSE <<>>)

\* LifestyleWeight as the bare remainder, without the floor of 0.05
LifestyleWeightNoFloor(profile) ==
  100 - (25 + 20 + accessWeight(profile) + 15 + 10)

\* the weight of Lifestyle Fit: Math.max(0.05, remainingWeight)
LifestyleWeight(profile) ==
  LET remainingWeight == 100 - (25 + 20 + accessWeight(profile) + 15 + 10)
  IN  Max(5, remainingWeight)

\* the six categories pushed, in order
Categories(profile, analysis) ==
  << [name |-> "Budget Fit", score |-> BudgetScore(profile, analysis),
      weight |-> 25, details |-> BudgetDetails(profile, analysis)],
     [name |-> "Size & Layout", score |-> SizeScore(profile, analysis),
      weight |-> 20, details |-> "size"],
     [name |-> "Accessibility", score |-> AccessScore(profile, analysis),
      weight |-> accessWeight(profile), details |-> "accessibility"],
     [name |-> "Feature Match", score |-> FeatureScore(profile, analysis),
      weight |-> 15, details |-> "features"],
     [name |-> "Trust & Risk", score |-> TrustCategoryScore(analysis),
      weight |-> 10, details |-> "trust"],
     [name |-> "Lifestyle Fit", score |-> LifestyleScore(profile, analysis),
      weight |-> LifestyleWeight(profile), details |-> "lifestyle"] >>

\* Math.round(weightedSum / totalWeight)
WeightedAverage(categories) ==
  LET totalWeight == SumSeq([i \in 1..Len(categories) |-> categories[i].weight])
      weightedSum == SumSeq([i \in 1..Len(categories) |->
                               categories[i].score * categories[i].weight])
  IN  RoundDiv(weightedSum, totalWeight)

hasDealbreaker(missedFeatures) ==
  LET Violated(f) == f.importance = "dealbreaker" /\ f.status = "violated"
  IN  SomeSeq(missedFeatures, Violated)

hasAccessBlocker(accessibilityFlags) ==
  LET Blocker(f) == f.severity = "blocker"
  IN  SomeSeq(accessibilityFlags, Blocker)

\* DealbreakerCap with the cap left out
DealbreakerCapNone(score, capped) == score

\* the hard cap for a dealbreaker or an accessibility blocker
DealbreakerCap(score, capped) == IF capped THEN Min(score, 25) ELSE score

\* BudgetCap with the two tests in the wrong order: the cap of 30 is never reached
BudgetCapSwapped(score, profile, analysis) ==
  LET effectivePrice == getEffectivePrice(analysis) IN
  IF Truthy(effectivePrice) /\ effectivePrice > profile.budgetStretch THEN
    IF profile.budgetStretch = 0 THEN Min(score, 40)
    ELSE IF (effectivePrice - profile.budgetStretch) * 100 > 10 * profile.budgetStretch
      THEN Min(score, 40)
    ELSE IF (effectivePrice - profile.budgetStretch) * 100 > 20 * profile.budgetStretch
      THEN Min(score, 30)
    ELSE score
  ELSE score

\* the hard caps for a price over the stretch budget (pctOver > 20, pctOver > 10)
BudgetCap(score, profile, analysis) ==
  LET effectivePrice == getEffectivePrice(analysis) IN
  IF Truthy(effectivePrice) /\ effectivePrice > profile.budgetStretch THEN
    \* budgetStretch = 0 makes pctOver Infinity
    IF profile.budgetStretch = 0 THEN Min(score, 30)
    ELSE IF (effectivePrice - profile.budgetStretch) * 100 > 20 * profile.budgetStretch
      THEN Min(score, 30)
    ELSE IF (effectivePrice - profile.budgetStretch) * 100 > 10 * profile.budgetStretch
      THEN Min(score, 40)
    ELSE score
  ELSE score

\* LabelOf with good_match starting above 60 instead of at 60
LabelOfStrict(overallScore, capped) ==
  IF capped THEN "dealbreaker"
  ELSE IF overallScore >= 75 THEN "great_match"
  ELSE IF overallScore > 60 THEN "good_match"
  ELSE IF overallScore >= 40 THEN "fair"
  ELSE "poor_match"

\* the label derived from the final score and the two hard-cap flags
LabelOf(overallScore, capped) ==
  IF capped THEN "dealbreaker"
  ELSE IF overallScore >= 75 THEN "great_match"
  ELSE IF overallScore >= 60 THEN "good_match"
  ELSE IF overallScore >= 40 THEN "fair"
  ELSE "poor_match"

PetSuggestions(profile, analysis) ==
  IF profile.hasPets /\ Len(profile.petTypes) > 0
    THEN << [category |-> "ask_about", title |-> "Pet policy check",
             priority |-> "medium"] >>
    ELSE <<>>

computeFitScore(profile, analysis) ==
  LET categories == Categories(profile, analysis)
      missedFeatures == MissedFeatures(profile, analysis)
      accessibilityFlags == AccessFlags(profile, analysis)
      capped == hasDealbreaker(missedFeatures) \/ hasAccessBlocker(accessibilityFlags)
      overallScore ==
        Clamp(BudgetCap(DealbreakerCap(WeightedAverage(categories), capped),
                        profile, analysis))
  IN  [ overallScore |-> overallScore,
        label |-> LabelOf(overallScore, capped),
        breakdown |-> categories,
        matchedFeatures |-> MatchedFeatures(profile, analysis),
        missedFeatures |-> missedFeatures,
        accessibilityFlags |-> accessibilityFlags,
        suggestions |-> BudgetSuggestions(profile, analysis)
                        \o AccessSuggestions(profile, analysis)
                        \o LifestyleSuggestions(profile, analysis)
                        \o PetSuggestions(profile, analysis) ]

---------------------------------------------------------------------------
(* The inputs of the model *)

\* prices run over null and 0..MaxPrice
MaxPrice == 14
\* the comfortable and the absolute budget ceiling of the profiles
ComfortBudget == 8
StretchBudget == 10
\* bedroom counts run over null and 0..MaxBeds
MaxBeds == 4
\* the longest accessibilityNeeds list
MaxNeeds == 2
\* the largest number of feature tags in mustHaves, niceToHaves and dealbreakers
\* together, for the lists of FeatureLists
MaxFeatures == 2

PriceValues == {Null} \cup 0..MaxPrice
Budgets ==
  { [max |-> 0, stretch |-> 0], [max |-> 0, stretch |-> StretchBudget],
    [max |-> ComfortBudget, stretch |-> StretchBudget],
    [max |-> ComfortBudget, stretch |-> StretchBudget + 1],
    [max |-> StretchBudget, stretch |-> StretchBudget] }
BedValues == {Null} \cup 0..MaxBeds
StoryValues == {Null, 0, 1, 2, 3}

\* the needs with a rule of their own, one need without (visual_impairment), and none
Needs ==
  { "wheelchair_full", "wheelchair_occasional", "mobility_limited", "chronic_fatigue",
    "sensory_sensitivity", "respiratory", "aging_in_place", "visual_impairment", "none" }
\* the features the snapshot decides, and one it does not (pool)
Features ==
  { "single_story", "garage", "no_hoa", "low_hoa", "new_construction", "yard", "pool" }
Households ==
  { <<>>, <<"couple">>, <<"elderly_parent">>, <<"family_young_kids">>,
    <<"elderly_parent", "family_young_kids">> }

SeqsUpTo(S, n) == UNION { [1..k -> S] : k \in 0..n }

\* a snapshot where every decidable feature is present
GoodSnapshot ==
  [ beds |-> 4, baths |-> 3, sqft |-> 2400, lotSqft |-> 5000, yearBuilt |-> 2021,
    stories |-> 1, garage |-> "2-car attached", hoa |-> 0, zoning |-> "R-1",
    taxAssessedValue |-> 7, lastSaleDate |-> "2019-06-01", lastSalePrice |-> 6 ]
\* a snapshot where every decidable feature is absent
BadSnapshot ==
  [ beds |-> 2, baths |-> 1, sqft |-> 1000, lotSqft |-> 1500, yearBuilt |-> 1985,
    stories |-> 2, garage |-> "None", hoa |-> 250, zoning |-> NullStr,
    taxAssessedValue |-> 13, lastSaleDate |-> NullStr, lastSalePrice |-> 12 ]
\* a snapshot with a low HOA fee and the rest unknown
LowHoaSnapshot == [EmptySnapshot EXCEPT !.hoa = 150]
\* a snapshot whose numbers are 0 and whose garage is the empty string
ZeroSnapshot ==
  [ beds |-> 0, baths |-> 0, sqft |-> 0, lotSqft |-> 0, yearBuilt |-> 0,
    stories |-> 0, garage |-> "", hoa |-> 0, zoning |-> "", taxAssessedValue |-> 0,
    lastSaleDate |-> "", lastSalePrice |-> 0 ]
FeatureSnapshots ==
  { NoSnapshot, EmptySnapshot, GoodSnapshot, BadSnapshot, LowHoaSnapshot, ZeroSnapshot }

QuietClaim ==
  [ category |-> "neighborhood_fit", statement |-> QuietStatement,
    verdict |-> "verified", severity |-> "info", confidence |-> 9 ]
NoisyClaim ==
  [ category |-> "neighborhood_fit", statement |-> NoisyStatement,
    verdict |-> "unverified", severity |-> "caution", confidence |-> 6 ]

DefaultProfile ==
  [ situation |-> "first_time", householdMembers |-> <<>>,
    accessibilityNeeds |-> <<>>, budgetMax |-> ComfortBudget,
    budgetStretch |-> StretchBudget, mustHaves |-> <<>>, niceToHaves |-> <<>>,
    dealbreakers |-> <<>>, bedsMin |-> 2, bathsMin |-> 1, sqftMin |-> 0,
    hasPets |-> FALSE, petTypes |-> <<>> ]

\* the backgrounds a family of inputs is varied on: a good match with a high and
\* with a zero trust score, and a property with a blocker and a dealbreaker
Backgrounds ==
  { [ profile |-> DefaultProfile,
      data |-> [ propertySnapshot |-> GoodSnapshot, trustScore |-> 100,
                 listPrice |-> ComfortBudget, claims |-> <<QuietClaim>> ] ],
    [ profile |-> [DefaultProfile EXCEPT !.accessibilityNeeds = <<"none">>],
      data |-> [ propertySnapshot |-> GoodSnapshot, trustScore |-> 0,
                 listPrice |-> ComfortBudget, claims |-> <<>> ] ],
    [ profile |-> [DefaultProfile EXCEPT !.accessibilityNeeds = <<"wheelchair_full">>,
                                         !.dealbreakers = <<"no_hoa">>,
                                         !.householdMembers = <<"elderly_parent">>,
                                         !.bedsMin = 3],
      data |-> [ propertySnapshot |-> BadSnapshot, trustScore |-> 50,
                 listPrice |-> StretchBudget + 1, claims |-> <<NoisyClaim>> ] ] }

\* the three feature lists, MaxFeatures tags in all
FeatureLists ==
  { l \in [ mustHaves : SeqsUpTo(Features, MaxFeatures),
            niceToHaves : SeqsUpTo(Features, MaxFeatures),
            dealbreakers : SeqsUpTo(Features, MaxFeatures) ] :
      Len(l.mustHaves) + Len(l.niceToHaves) + Len(l.dealbreakers) <= MaxFeatures }

\* budgets and the three price sources
PriceFamily(bg, p, d) ==
  \E b \in Budgets, lp \in PriceValues, tax \in PriceValues, last \in PriceValues :
    /\ p = [bg.profile EXCEPT !.budgetMax = b.max, !.budgetStretch = b.stretch]
    /\ d = [bg.data EXCEPT !.listPrice = lp,
                           !.propertySnapshot.taxAssessedValue = tax,
                           !.propertySnapshot.lastSalePrice = last]

\* size minimums against beds, baths and sqft
SizeFamily(bg, p, d) ==
  \E bm \in 0..MaxBeds, tm \in {0, 2}, sm \in {0, 2000},
     beds \in BedValues, baths \in {Null, 0, 1, 2, 3}, sqft \in {Null, 0, 1000, 1500, 1990, 2000, 2400} :
    /\ p = [bg.profile EXCEPT !.bedsMin = bm, !.bathsMin = tm, !.sqftMin = sm]
    /\ d = [bg.data EXCEPT !.propertySnapshot.beds = beds,
                           !.propertySnapshot.baths = baths,
                           !.propertySnapshot.sqft = sqft]

\* accessibility needs against stories, year built and the noise claims
AccessFamily(bg, p, d) ==
  \E needs \in SeqsUpTo(Needs, MaxNeeds), stories \in StoryValues,
     year \in {Null, 0, 1985, 1990, 2021}, claims \in { <<>>, <<QuietClaim>>, <<QuietClaim, NoisyClaim>> } :
    /\ p = [bg.profile EXCEPT !.accessibilityNeeds = needs]
    /\ d = [bg.data EXCEPT !.propertySnapshot.stories = stories,
                           !.propertySnapshot.yearBuilt = year,
                           !.claims = claims]

\* the feature lists against the feature snapshots
FeatureFamily(bg, p, d) ==
  \E fl \in FeatureLists, snap \in FeatureSnapshots :
    /\ p = [bg.profile EXCEPT !.mustHaves = fl.mustHaves,
                              !.niceToHaves = fl.niceToHaves,
                              !.dealbreakers = fl.dealbreakers]
    /\ d = [bg.data EXCEPT !.propertySnapshot = snap]

\* situation, household and pets against beds and stories
LifestyleFamily(bg, p, d) ==
  \E sit \in {"first_time", "retiring", "multigenerational"}, hh \in Households, pets \in { <<FALSE, <<>> >>, <<TRUE, <<>> >>, <<TRUE, <<"dog">> >> },
     beds \in BedValues, stories \in StoryValues :
    /\ p = [bg.profile EXCEPT !.situation = sit, !.householdMembers = hh,
                              !.hasPets = pets[1], !.petTypes = pets[2]]
    /\ d = [bg.data EXCEPT !.propertySnapshot.beds = beds,
                           !.propertySnapshot.stories = stories]

\* every trust score
TrustFamily(bg, p, d) ==
  \E t \in 0..100 :
    /\ p = bg.profile
    /\ d = [bg.data EXCEPT !.trustScore = t]

\* no snapshot at all
NoSnapshotFamily(bg, p, d) ==
  \E b \in Budgets, lp \in PriceValues, needs \in SeqsUpTo(Needs, 1) :
    /\ p = [bg.profile EXCEPT !.budgetMax = b.max, !.budgetStretch = b.stretch,
                              !.accessibilityNeeds = needs]
    /\ d = [bg.data EXCEPT !.listPrice = lp, !.propertySnapshot = NoSnapshot]

\* a profile with a tag in every list and two dealbreakers, against the feature
\* snapshots
CrowdedFamily(bg, p, d) ==
  \E snap \in FeatureSnapshots :
    /\ p = [bg.profile EXCEPT !.mustHaves = <<"garage">>,
                              !.niceToHaves = <<"yard">>,
                              !.dealbreakers = <<"no_hoa", "single_story">>]
    /\ d = [bg.data EXCEPT !.propertySnapshot = snap]

\* the inputs of computeFitScore: a background varied in one group of fields
FitInput(p, d) ==
  \E bg \in Backgrounds :
    \/ CrowdedFamily(bg, p, d)
    \/ PriceFamily(bg, p, d)
    \/ SizeFamily(bg, p, d)
    \/ AccessFamily(bg, p, d)
    \/ FeatureFamily(bg, p, d)
    \/ LifestyleFamily(bg, p, d)
    \/ TrustFamily(bg, p, d)
    \/ NoSnapshotFamily(bg, p, d)

---------------------------------------------------------------------------
(* app/(main)/results/[id]/page.tsx *)

\* the claims of one category
ClaimsOf(claims, cat) ==
  LET InCat(c) == c.category = cat IN FilterSeq(claims, InCat)

CountVerdict(claims, verdict) ==
  LET Is(c) == c.verdict = verdict IN Len(FilterSeq(claims, Is))

\* verdictCounts after claims.forEach
verdictCountsOf(claims) ==
  [v \in Verdicts |-> CountVerdict(claims, v)]

\* categorySummaryOf built from the categories the claims have, not from the enumeration
categorySummaryOfPresent(claims) ==
  LET all == [i \in 1..Len(SCORING_CATEGORIES) |->
                LET catClaims == ClaimsOf(claims, SCORING_CATEGORIES[i]) IN
                [ category |-> SCORING_CATEGORIES[i],
                  total |-> Len(catClaims),
                  contradictions |-> CountVerdict(catClaims, "contradiction"),
                  unverified |-> CountVerdict(catClaims, "unverified"),
                  verified |-> CountVerdict(catClaims, "verified") ]]
      HasClaims(e) == e.total > 0
  IN  FilterSeq(all, HasClaims)

\* SCORING_CATEGORIES.map(...)
categorySummaryOf(claims) ==
  [i \in 1..Len(SCORING_CATEGORIES) |->
     LET catClaims == ClaimsOf(claims, SCORING_CATEGORIES[i]) IN
     [ category |-> SCORING_CATEGORIES[i],
       total |-> Len(catClaims),
       contradictions |-> CountVerdict(catClaims, "contradiction"),
       unverified |-> CountVerdict(catClaims, "unverified"),
       verified |-> CountVerdict(catClaims, "verified") ]]

\* severityOrder[s] ?? 3
severityOrder(sev) ==
  CASE sev = "critical" -> 0
    [] sev = "warning" -> 1
    [] sev = "caution" -> 2
    [] OTHER -> 3

\* the comparator of filteredClaims.sort: negative when a goes before b
CompareClaims(a, b) ==
  LET sevDiff == severityOrder(a.severity) - severityOrder(b.severity)
  IN  IF sevDiff # 0 THEN sevDiff ELSE b.confidence - a.confidence

\* Array.prototype.sort, which is stable: x goes behind what does not compare after it
RECURSIVE InsertClaim(_, _)
InsertClaim(x, sorted) ==
  IF sorted = <<>> THEN <<x>>
  ELSE IF CompareClaims(x, Head(sorted)) < 0 THEN <<x>> \o sorted
  ELSE <<Head(sorted)>> \o InsertClaim(x, Tail(sorted))

RECURSIVE SortClaims(_)
SortClaims(claims) ==
  IF claims = <<>> THEN <<>>
  ELSE InsertClaim(claims[Len(claims)], SortClaims(SubSeq(claims, 1, Len(claims) - 1)))

\* the longest claims list
MaxClaims == 3

\* the claims the lists are made of (confidence in tenths)
ClaimPool ==
  { QuietClaim, NoisyClaim,
    [ category |-> "record_mismatch", statement |-> "Listing says 4 beds, records say 3",
      verdict |-> "contradiction", severity |-> "critical", confidence |-> 9 ],
    [ category |-> "record_mismatch", statement |-> "Square footage matches records",
      verdict |-> "verified", severity |-> "critical", confidence |-> 9 ],
    [ category |-> "pricing_anomaly", statement |-> "Priced below area median",
      verdict |-> "marketing", severity |-> "warning", confidence |-> 4 ],
    [ category |-> "renovation_permit", statement |-> "Kitchen remodel was permitted",
      verdict |-> "unverified", severity |-> "warning", confidence |-> 7 ] }

---------------------------------------------------------------------------
(* app/api/analyze/route.ts, lib/claude.ts *)

\* the number of POST /api/analyze requests
MaxRequests == 2
RequestIds == 1..MaxRequests

\* what fetchPropertyData returns as snapshot: null, or the Realie record
RealieSnapshots ==
  { NoSnapshot,
    [EmptySnapshot EXCEPT !.beds = 3, !.taxAssessedValue = 7, !.lastSalePrice = 6] }

\* what the parsed Claude response carries as propertySnapshot: nothing, the
\* Realie fields completed by estimates, or values of its own
ClaudeSnapshots ==
  { NoSnapshot,
    [EmptySnapshot EXCEPT !.beds = 3, !.baths = 2, !.taxAssessedValue = 7,
                          !.lastSalePrice = 6],
    [EmptySnapshot EXCEPT !.beds = 2, !.baths = 2] }

NoRecord == [none |-> TRUE]
NoResponse == [none |-> TRUE]

IdleRequest ==
  [ pc |-> "idle", listPrice |-> Null, realieSnapshot |-> NoSnapshot,
    zillowListPrice |-> Null, result |-> NoResponse, claudeError |-> "none",
    httpStatus |-> 0 ]

\* a ?? b on number | null | undefined
Coalesce(x, y) == IF x # Null THEN x ELSE y

\* effectiveListPrice: user > Zillow scraped > Realie last sale
effectiveListPrice(req) ==
  Coalesce(req.listPrice,
    Coalesce(req.zillowListPrice,
      IF req.realieSnapshot = NoSnapshot THEN Null
      ELSE req.realieSnapshot.lastSalePrice))

\* analyzeProperty's validation of the parsed response:
\* !parsed.trustScore || !parsed.claims || !parsed.actionItems
ValidResponse(parsed) == parsed.trustScore # 0

---------------------------------------------------------------------------
(* State *)

VARIABLES
  profile,          \* the buyer profile of useBuyerProfile, or NoProfile
  data,             \* the analysis the results page fetched
  fitResult,        \* the FitScoreResult computed, or NoFitResult
  activeCategory,   \* the category filter of the results page
  rendered,         \* whether the results page has rendered the analysis
  verdictCounts,    \* the verdict counts of the last render
  categorySummary,  \* the category summary of the last render
  filteredClaims,   \* the claims shown by the last render
  requests,         \* per POST /api/analyze request: its position and its locals
  db,               \* the propertyAnalysis table: per request the record it created
  wizard,           \* the profile state of BuyerProfileWizard and its last click
  clock,            \* Date.now(), in seconds
  hasApiKey,        \* whether ANTHROPIC_API_KEY was set when the module loaded
  recentCalls,      \* claude-rate-limit: the timestamps of the recorded calls
  usageStats,       \* claude-rate-limit: the calls and the cost recorded
  cache,            \* claude-cache: per cache key the entry stored, or NoEntry
  calls,            \* the calls of the cached analyzeProperty: how many were made, and
                    \* per cache key how many wait at each of its two awaits
  apiLog,           \* per cache key the times anthropic.messages.create was called
  lastServed        \* the call that returned last, its key and what it returned

pageVars == <<activeCategory, rendered, verdictCounts, categorySummary, filteredClaims>>
claudeVars == <<clock, hasApiKey, recentCalls, usageStats, cache, calls, apiLog, lastServed>>
serverVars == <<requests, db, claudeVars>>
clientVars == <<profile, data, fitResult, pageVars, wizard>>
vars == <<profile, data, fitResult, pageVars, serverVars, wizard>>

\* the wizard's profile state: the three feature lists of DEFAULT_PROFILE, the
\* accessibility needs, and the last click handled
NoClick == [kind |-> "none", feat |-> "none", status |-> "none"]
WizardClosed ==
  wizard = [ mustHaves |-> <<>>, niceToHaves |-> <<>>, dealbreakers |-> <<>>,
             accessibilityNeeds |-> <<"none">>, clicked |-> NoClick ]

---------------------------------------------------------------------------
(* lib/claude-rate-limit.ts, lib/claude-cache.ts and the analyzeProperty that
   uses them.  Time is in seconds and money in millionths of a dollar. *)

\* PRICING, per token in millionths of a dollar
PRICING_INPUT == 3
PRICING_OUTPUT == 15
\* BUDGET_LIMIT, SAFE_LIMIT
BUDGET_LIMIT == 5000000
SAFE_LIMIT == 4500000
\* MAX_CALLS_PER_MINUTE, MAX_CALLS_PER_HOUR
MAX_CALLS_PER_MINUTE == 5
MAX_CALLS_PER_HOUR == 30
\* a minute, an hour and CACHE_TTL
ONE_MINUTE == 60
ONE_HOUR == 3600
CACHE_TTL == 86400

\* the number of calls of analyzeProperty and the number of clock steps
MaxCalls == 6
MaxTicks == 1

\* the cache keys of the requests: getCacheKey is a function of the address, the
\* list price and the listing text, so equal parameters give equal keys
CacheKeys == {"12 Elm St:9:no-text", "40 Oak Ave:no-price:no-text"}
\* the token usage the response to the prompt of a cache key reports: a long
\* listing text with a long answer, and a short one
TokenUsage(key) ==
  IF key = "12 Elm St:9:no-text" THEN [input |-> 120000, output |-> 8000]
  ELSE [input |-> 2000, output |-> 1000]
\* the clock when the model starts
StartClock == 7200

\* estimateCost
estimateCost(inputTokens, outputTokens) ==
  inputTokens * PRICING_INPUT + outputTokens * PRICING_OUTPUT

NoEntry == [none |-> TRUE]
\* no call made yet, and what a call returned
NoCalls ==
  [ made |-> 0, calling |-> [k \in CacheKeys |-> 0], mocking |-> [k \in CacheKeys |-> 0] ]
NoneServed == [key |-> "none", by |-> "none", response |-> "none"]
Served(key, by, response) == [key |-> key, by |-> by, response |-> response]

\* canMakeClaudeCall: the loop that drops the calls older than an hour
RECURSIVE CleanOldCalls(_, _)
CleanOldCalls(recent, now) ==
  IF Len(recent) > 0 /\ Head(recent) < now - ONE_HOUR
    THEN CleanOldCalls(Tail(recent), now)
    ELSE recent

\* canMakeClaudeCall without the per-minute and the hourly check
canMakeClaudeCallBudgetOnly(stats, recent, now) ==
  stats.estimatedCost < SAFE_LIMIT

\* canMakeClaudeCall: allowed, given the cleaned recentCalls
canMakeClaudeCall(stats, recent, now) ==
  LET callsLastHour == Len(recent)
      callsLastMinute == Len(SelectSeq(recent, LAMBDA time : time > now - ONE_MINUTE))
  IN  /\ ~(stats.estimatedCost >= SAFE_LIMIT)
      /\ ~(callsLastHour >= MAX_CALLS_PER_HOUR)
      /\ ~(callsLastMinute >= MAX_CALLS_PER_MINUTE)

\* recordClaudeUsage
recordClaudeUsage(stats, inputTokens, outputTokens) ==
  [ totalCalls |-> stats.totalCalls + 1,
    estimatedCost |-> stats.estimatedCost + estimateCost(inputTokens, outputTokens) ]

\* getCachedAnalysis: whether the key has an entry that is not expired
CacheHit(key, now) ==
  /\ cache[key] # NoEntry
  /\ ~(now - cache[key].timestamp > CACHE_TTL)
\* getCachedAnalysis: the cache after the lookup, which deletes an expired entry
CacheAfterLookup(key, now) ==
  IF cache[key] # NoEntry /\ now - cache[key].timestamp > CACHE_TTL
    THEN [cache EXCEPT ![key] = NoEntry]
    ELSE cache
\* setCachedAnalysis
setCachedAnalysis(c, key, response, now) ==
  [c EXCEPT ![key] = [response |-> response, timestamp |-> now]]

\* the rate limiter, the cache and the calls before any request
ClaudeIdle ==
  /\ clock = [now |-> StartClock, ticks |-> 0]
  /\ hasApiKey = TRUE
  /\ recentCalls = <<>>
  /\ usageStats = [totalCalls |-> 0, estimatedCost |-> 0]
  /\ cache = [k \in CacheKeys |-> NoEntry]
  /\ calls = NoCalls
  /\ apiLog = [k \in CacheKeys |-> <<>>]
  /\ lastServed = NoneServed

NoProfile == [none |-> TRUE]
NoFitResult == [none |-> TRUE]

---------------------------------------------------------------------------
(* The fit engine applied to one input *)

\* the results page before its first render
PageNotRendered ==
  /\ activeCategory = "all"
  /\ rendered = FALSE
  /\ verdictCounts = [v \in Verdicts |-> 0]
  /\ categorySummary = <<>>
  /\ filteredClaims = <<>>

\* the server with no request received
ServerIdle ==
  /\ requests = [r \in RequestIds |-> IdleRequest]
  /\ db = [r \in RequestIds |-> NoRecord]
  /\ ClaudeIdle

InitFit ==
  /\ FitInput(profile, data)
  /\ fitResult = NoFitResult
  /\ PageNotRendered
  /\ ServerIdle
  /\ WizardClosed

\* computeFitScore(profile, analysis)
ComputeFit ==
  /\ fitResult = NoFitResult
  /\ profile # NoProfile
  /\ fitResult' = computeFitScore(profile, data)
  /\ UNCHANGED <<profile, data, pageVars, serverVars, wizard>>

NextFit == ComputeFit

Spec == InitFit /\ [][NextFit]_vars

---------------------------------------------------------------------------
(* The results page *)

Profiles ==
  { NoProfile, DefaultProfile,
    [DefaultProfile EXCEPT !.accessibilityNeeds = <<"sensory_sensitivity">>] }

\* GET /api/properties/[id] returns the claims ordered by severity ascending (a
\* string column, so alphabetically) and then by confidence descending
ApiSeverityRank(sev) ==
  CASE sev = "caution" -> 0
    [] sev = "critical" -> 1
    [] sev = "info" -> 2
    [] OTHER -> 3
ApiOrdered(claims) ==
  \A i \in 1..Len(claims), j \in 1..Len(claims) :
    i < j =>
      \/ ApiSeverityRank(claims[i].severity) < ApiSeverityRank(claims[j].severity)
      \/ /\ claims[i].severity = claims[j].severity
         /\ claims[i].confidence >= claims[j].confidence

InitPage ==
  /\ profile \in Profiles
  /\ \E claims \in SeqsUpTo(ClaimPool, MaxClaims) :
       /\ ApiOrdered(claims)
       /\ data = [ propertySnapshot |-> GoodSnapshot, trustScore |-> 72,
                   listPrice |-> ComfortBudget, claims |-> claims ]
  /\ fitResult = NoFitResult
  /\ PageNotRendered
  /\ ServerIdle
  /\ WizardClosed

\* the body of ResultsPage once the analysis is loaded, with category cat active
RenderPage(cat) ==
  LET claims == data.claims
      shown == IF cat = "all" THEN claims ELSE ClaimsOf(claims, cat)
      sorted == SortClaims(shown)
      \* with "all" active filteredClaims is the array data.claims itself,
      \* and sort() sorts it in place
      dataAfter == IF cat = "all" THEN [data EXCEPT !.claims = sorted] ELSE data
  IN  /\ verdictCounts' = verdictCountsOf(claims)
      /\ categorySummary' = categorySummaryOf(claims)
      /\ filteredClaims' = sorted
      /\ data' = dataAfter
      /\ fitResult' = IF profile # NoProfile
                        THEN computeFitScore(profile, dataAfter)
                        ELSE NoFitResult
      /\ activeCategory' = cat
      /\ rendered' = TRUE
      /\ UNCHANGED <<profile, serverVars, wizard>>

\* the first render after the fetch
Render ==
  /\ ~rendered
  /\ RenderPage(activeCategory)

\* a click on a category button ("All", or a category that has claims)
SetActiveCategory(cat) ==
  /\ rendered
  /\ cat # activeCategory
  /\ cat = "all" \/ Len(ClaimsOf(data.claims, cat)) > 0
  /\ RenderPage(cat)

NextPage ==
  \/ Render
  \/ \E i \in 1..Len(SCORING_CATEGORIES) : SetActiveCategory(SCORING_CATEGORIES[i])
  \/ SetActiveCategory("all")

SpecPage == InitPage /\ [][NextPage]_vars

---------------------------------------------------------------------------
(* POST /api/analyze *)

\* the profiles of the browser that posts the requests: none, or a buyer whose
\* comfortable maximum lies between the last sale price and the tax-assessed
\* value of the Realie record
InitAnalyze ==
  /\ profile \in { NoProfile, [DefaultProfile EXCEPT !.budgetMax = 6] }
  /\ data = [ propertySnapshot |-> NoSnapshot, trustScore |-> 0,
              listPrice |-> Null, claims |-> <<>> ]
  /\ fitResult = NoFitResult
  /\ PageNotRendered
  /\ ServerIdle
  /\ WizardClosed

\* the request body fails AnalyzeRequestSchema: 400, no record
PostInvalid(r) ==
  /\ requests[r].pc = "idle"
  /\ requests' = [requests EXCEPT ![r].pc = "done", ![r].httpStatus = 400]
  /\ UNCHANGED <<db, clientVars, claudeVars>>

\* 1. the record is created, with status "analyzing"
PostCreate(r) ==
  /\ requests[r].pc = "idle"
  /\ \E listPrice \in {Null, 9} :
       /\ requests' = [requests EXCEPT ![r].pc = "created", ![r].listPrice = listPrice]
       /\ db' = [db EXCEPT ![r] = [ status |-> "analyzing", listPrice |-> listPrice,
                                    propertySnapshot |-> NoSnapshot,
                                    trustScore |-> Null ]]
  /\ UNCHANGED <<clientVars, claudeVars>>

\* 2. and 3. fetchPropertyData and scrapeZillowListing, neither of which throws
PostFetch(r) ==
  /\ requests[r].pc = "created"
  /\ \E snapshot \in RealieSnapshots, zillow \in {Null, 10} :
       requests' = [requests EXCEPT ![r].pc = "fetched",
                                    ![r].realieSnapshot = snapshot,
                                    ![r].zillowListPrice = zillow]
  /\ UNCHANGED <<db, clientVars, claudeVars>>

\* 4. analyzeProperty returns the parsed response of Claude
PostAnalyze(r) ==
  /\ requests[r].pc = "fetched"
  /\ \E snapshot \in ClaudeSnapshots, trust \in {0, 72} :
       LET parsed == [propertySnapshot |-> snapshot, trustScore |-> trust] IN
       /\ ValidResponse(parsed)
       /\ requests' = [requests EXCEPT ![r].pc = "analyzed", ![r].result = parsed]
  /\ UNCHANGED <<db, clientVars, claudeVars>>

\* 4. analyzeProperty throws (no API key, the call fails, the response does not
\* parse or fails the validation): the record gets status "error", 500
PostAnalyzeFailed(r) ==
  /\ requests[r].pc = "fetched"
  /\ \E cause \in {"no_key", "call_failed", "bad_response"} :
       requests' = [requests EXCEPT ![r].pc = "done", ![r].httpStatus = 500,
                                    ![r].claudeError = cause]
  /\ db' = [db EXCEPT ![r].status = "error"]
  /\ UNCHANGED <<clientVars, claudeVars>>

\* 5. the transaction commits: the record takes the response's snapshot and
\* trust score, status "complete" and the effective list price when there is one
PostPersist(r) ==
  /\ requests[r].pc = "analyzed"
  /\ requests' = [requests EXCEPT ![r].pc = "done", ![r].httpStatus = 200]
  /\ db' = [db EXCEPT ![r] =
              [ status |-> "complete",
                listPrice |-> IF effectiveListPrice(requests[r]) # Null
                                THEN effectiveListPrice(requests[r]) ELSE @.listPrice,
                propertySnapshot |-> requests[r].result.propertySnapshot,
                trustScore |-> requests[r].result.trustScore ]]
  /\ UNCHANGED <<clientVars, claudeVars>>

\* the outer catch putting the record back to "pending"
PostPersistFailedRequeue(r) ==
  /\ requests[r].pc = "analyzed"
  /\ requests' = [requests EXCEPT ![r].pc = "done", ![r].httpStatus = 500]
  /\ db' = [db EXCEPT ![r].status = "pending"]
  /\ UNCHANGED <<clientVars, claudeVars>>

\* 5. the transaction throws and rolls back: the outer catch answers 500
PostPersistFailed(r) ==
  /\ requests[r].pc = "analyzed"
  /\ requests' = [requests EXCEPT ![r].pc = "done", ![r].httpStatus = 500]
  /\ UNCHANGED <<db, clientVars, claudeVars>>

\* the home page pushes /results/{id} once the request is answered 200: the
\* results page fetches the record from GET /api/properties/[id] (no claims are
\* modelled here) and computes the fit score when there is a profile
ViewResults(r) ==
  /\ requests[r].pc = "done"
  /\ requests[r].httpStatus = 200
  /\ fitResult = NoFitResult
  /\ LET json == [ id |-> r, propertySnapshot |-> db[r].propertySnapshot,
                   trustScore |-> db[r].trustScore, listPrice |-> db[r].listPrice,
                   claims |-> <<>> ]
     IN  /\ data' = json
         /\ fitResult' = IF profile # NoProfile THEN computeFitScore(profile, json)
                          ELSE NoFitResult
  /\ data # data'
  /\ UNCHANGED <<profile, pageVars, wizard, serverVars>>

NextAnalyze ==
  \E r \in RequestIds :
    \/ PostInvalid(r)
    \/ PostCreate(r)
    \/ PostFetch(r)
    \/ PostAnalyze(r)
    \/ PostAnalyzeFailed(r)
    \/ PostPersist(r)
    \/ PostPersistFailed(r)
    \/ ViewResults(r)

SpecAnalyze == InitAnalyze /\ [][NextAnalyze]_vars

---------------------------------------------------------------------------
(* analyzeProperty with the cache and the rate limiter *)

InitClaude ==
  /\ profile = NoProfile
  /\ data = [ propertySnapshot |-> NoSnapshot, trustScore |-> 0,
              listPrice |-> Null, claims |-> <<>> ]
  /\ fitResult = NoFitResult
  /\ PageNotRendered
  /\ requests = [r \in RequestIds |-> IdleRequest]
  /\ db = [r \in RequestIds |-> NoRecord]
  /\ WizardClosed
  /\ clock = [now |-> StartClock, ticks |-> 0]
  /\ hasApiKey \in BOOLEAN
  /\ \E n \in {0, 9} :
       /\ n > 0 => hasApiKey
       /\ recentCalls = [i \in 1..n |-> 0]
       /\ usageStats = [totalCalls |-> n, estimatedCost |-> n * estimateCost(120000, 8000)]
  /\ cache = [k \in CacheKeys |-> NoEntry]
  /\ calls = NoCalls
  /\ apiLog = [k \in CacheKeys |-> <<>>]
  /\ lastServed = NoneServed

\* one more call of analyzeProperty is made
Arrives == calls.made < MaxCalls

NotAnalyzing == <<clientVars, requests, db>>

\* analyzeProperty finds the analysis in the cache and returns it
ServeCached(key) ==
  /\ Arrives
  /\ CacheHit(key, clock.now)
  /\ calls' = [calls EXCEPT !.made = @ + 1]
  /\ lastServed' = Served(key, "cache", cache[key].response)
  /\ UNCHANGED <<NotAnalyzing, clock, hasApiKey, recentCalls, usageStats, cache, apiLog>>

\* no cached analysis and no API key: analyzeProperty waits 1.5 s for the mock data
StartMock(key) ==
  /\ Arrives
  /\ ~hasApiKey
  /\ ~CacheHit(key, clock.now)
  /\ cache' = CacheAfterLookup(key, clock.now)
  /\ calls' = [calls EXCEPT !.made = @ + 1, !.mocking[key] = @ + 1]
  /\ UNCHANGED <<NotAnalyzing, clock, hasApiKey, recentCalls, usageStats, apiLog,
                 lastServed>>

\* the wait is over: the mock data is cached and returned
FinishMock(key) ==
  /\ calls.mocking[key] > 0
  /\ cache' = setCachedAnalysis(cache, key, "mock", clock.now)
  /\ calls' = [calls EXCEPT !.mocking[key] = @ - 1]
  /\ lastServed' = Served(key, "mock", "mock")
  /\ UNCHANGED <<NotAnalyzing, clock, hasApiKey, recentCalls, usageStats, apiLog>>

\* no cached analysis and canMakeClaudeCall refuses: the mock data is returned,
\* and not cached
Blocked(key) ==
  LET cleaned == CleanOldCalls(recentCalls, clock.now) IN
  /\ Arrives
  /\ hasApiKey
  /\ ~CacheHit(key, clock.now)
  /\ ~canMakeClaudeCall(usageStats, cleaned, clock.now)
  /\ cache' = CacheAfterLookup(key, clock.now)
  /\ recentCalls' = cleaned
  /\ calls' = [calls EXCEPT !.made = @ + 1]
  /\ lastServed' = Served(key, "blocked", "mock")
  /\ UNCHANGED <<NotAnalyzing, clock, hasApiKey, usageStats, apiLog>>

\* no cached analysis and canMakeClaudeCall allows: anthropic.messages.create is
\* called and awaited
StartCall(key) ==
  LET cleaned == CleanOldCalls(recentCalls, clock.now) IN
  /\ Arrives
  /\ hasApiKey
  /\ ~CacheHit(key, clock.now)
  /\ canMakeClaudeCall(usageStats, cleaned, clock.now)
  /\ cache' = CacheAfterLookup(key, clock.now)
  /\ recentCalls' = cleaned
  /\ calls' = [calls EXCEPT !.made = @ + 1, !.calling[key] = @ + 1]
  /\ apiLog' = [apiLog EXCEPT ![key] = Append(@, clock.now)]
  /\ UNCHANGED <<NotAnalyzing, clock, hasApiKey, usageStats, lastServed>>

\* the response arrives: its usage is recorded; a response that parses and
\* validates is cached and returned, for any other the mock data is
FinishCall(key) ==
  /\ calls.calling[key] > 0
  /\ \E valid \in BOOLEAN :
       LET response == IF valid THEN "claude" ELSE "mock"
           usage == TokenUsage(key) IN
       /\ usageStats' = recordClaudeUsage(usageStats, usage.input, usage.output)
       /\ recentCalls' = Append(recentCalls, clock.now)
       /\ cache' = setCachedAnalysis(cache, key, response, clock.now)
       /\ calls' = [calls EXCEPT !.calling[key] = @ - 1]
       /\ lastServed' = Served(key, "api", response)
  /\ UNCHANGED <<NotAnalyzing, clock, hasApiKey, apiLog>>

\* anthropic.messages.create rejects: nothing is recorded, the mock data is
\* cached and returned
FailCall(key) ==
  /\ calls.calling[key] > 0
  /\ cache' = setCachedAnalysis(cache, key, "mock", clock.now)
  /\ calls' = [calls EXCEPT !.calling[key] = @ - 1]
  /\ lastServed' = Served(key, "api", "mock")
  /\ UNCHANGED <<NotAnalyzing, clock, hasApiKey, recentCalls, usageStats, apiLog>>

\* time passes
Tick ==
  /\ clock.ticks < MaxTicks
  /\ \E dt \in {30, 90000} : clock' = [now |-> clock.now + dt, ticks |-> clock.ticks + 1]
  /\ UNCHANGED <<NotAnalyzing, hasApiKey, recentCalls, usageStats, cache, calls,
                 apiLog, lastServed>>

NextClaude ==
  \/ \E key \in CacheKeys : ServeCached(key)
  \/ \E key \in CacheKeys : StartMock(key)
  \/ \E key \in CacheKeys : FinishMock(key)
  \/ \E key \in CacheKeys : Blocked(key)
  \/ \E key \in CacheKeys : StartCall(key)
  \/ \E key \in CacheKeys : FinishCall(key)
  \/ \E key \in CacheKeys : FailCall(key)
  \/ Tick

SpecClaude == InitClaude /\ [][NextClaude]_vars

---------------------------------------------------------------------------
(* lib/claude-cache.ts: getCacheKey, and analyzeProperty as the cache sees it.
   A string is the sequence of its characters. *)

\* the number of analyzeProperty calls the cache sees
MaxCacheCalls == 2

\* String.prototype.toLowerCase
toLowerCase(s) ==
  LET UpperCase ==
        << "A", "B", "C", "D", "E", "F", "G", "H", "I", "J", "K", "L", "M", "N", "O",
           "P", "Q", "R", "S", "T", "U", "V", "W", "X", "Y", "Z" >>
      LowerCase ==
        << "a", "b", "c", "d", "e", "f", "g", "h", "i", "j", "k", "l", "m", "n", "o",
           "p", "q", "r", "s", "t", "u", "v", "w", "x", "y", "z" >>
  IN  [i \in 1..Len(s) |->
         IF \E j \in 1..26 : UpperCase[j] = s[i]
           THEN LowerCase[CHOOSE j \in 1..26 : UpperCase[j] = s[i]]
           ELSE s[i]]

\* String.prototype.trim
RECURSIVE trim(_)
trim(s) ==
  IF s # <<>> /\ Head(s) = " " THEN trim(Tail(s))
  ELSE IF s # <<>> /\ s[Len(s)] = " " THEN trim(SubSeq(s, 1, Len(s) - 1))
  ELSE s

\* String.prototype.slice(0, n)
slice(s, n) == SubSeq(s, 1, Min(n, Len(s)))

\* the decimal representation of a number in a template literal
RECURSIVE NumberToString(_)
NumberToString(n) ==
  LET DecimalDigits == << "0", "1", "2", "3", "4", "5", "6", "7", "8", "9" >>
  IN  IF n < 10 THEN << DecimalDigits[n + 1] >>
      ELSE NumberToString(n \div 10) \o << DecimalDigits[(n % 10) + 1] >>

\* undefined of an optional string parameter
NoText == << "undefined" >>

\* Buffer.from(key).toString('base64'): every group of three bytes becomes four
\* characters, a shorter last group is padded to four; a group stands for its
\* four characters
RECURSIVE Base64(_)
Base64(bytes) ==
  IF bytes = <<>> THEN <<>>
  ELSE << slice(bytes, 3) >> \o Base64(SubSeq(bytes, 4, Len(bytes)))

\* getCacheKey: the first 64 characters of the base64 string are its first 16 groups
getCacheKey(params) ==
  LET normalizedAddress == trim(toLowerCase(params.address))
      price == IF Truthy(params.listPrice)
                 THEN NumberToString(params.listPrice)
                 ELSE << "n", "o", "-", "p", "r", "i", "c", "e" >>
      text == IF params.listingText # NoText /\ slice(params.listingText, 50) # <<>>
                THEN slice(params.listingText, 50)
                ELSE << "n", "o", "-", "t", "e", "x", "t" >>
      key == normalizedAddress \o << ":" >> \o price \o << ":" >> \o text
  IN  slice(Base64(key), 64 \div 4)

\* the addresses of the requests: "12 Elm St", the same as typed in capitals
\* between spaces, and an address of 52 characters
Addresses ==
  {
    << "1", "2", " ", "E", "l", "m", " ", "S", "t" >>,
    << " ", "1", "2", " ", "E", "L", "M", " ", "S", "T", " " >>,
    << "1", "8", "4", "0", "0", " ", "V", "o", "n", " ", "K", "a", "r", "m", "a",
       "n", " ", "A", "v", "e", "n", "u", "e", " ", "S", "u", "i", "t", "e", " ",
       "1", "2", "0", "0", ",", " ", "I", "r", "v", "i", "n", "e", ",", " ", "C",
       "A", " ", "9", "2", "6", "1", "2" >> }
\* the listing texts: none, two that have their first 50 characters in common,
\* and one that differs from them from character 33 on
ListingTexts ==
  { NoText,
    << "C", "h", "a", "r", "m", "i", "n", "g", " ", "s", "i", "n", "g", "l", "e",
       "-", "s", "t", "o", "r", "y", " ", "h", "o", "m", "e", " ", "o", "n", " ",
       "a", " ", "q", "u", "i", "e", "t", " ", "c", "u", "l", "-", "d", "e", "-",
       "s", "a", "c", ";", " ", "n", "e", "w", " ", "r", "o", "o", "f", " ", "i",
       "n", " ", "2", "0", "2", "1" >>,
    << "C", "h", "a", "r", "m", "i", "n", "g", " ", "s", "i", "n", "g", "l", "e",
       "-", "s", "t", "o", "r", "y", " ", "h", "o", "m", "e", " ", "o", "n", " ",
       "a", " ", "q", "u", "i", "e", "t", " ", "c", "u", "l", "-", "d", "e", "-",
       "s", "a", "c", ";", " ", "n", "e", "e", "d", "s", " ", "a", " ", "n", "e",
       "w", " ", "r", "o", "o", "f" >>,
    << "C", "h", "a", "r", "m", "i", "n", "g", " ", "s", "i", "n", "g", "l", "e",
       "-", "s", "t", "o", "r", "y", " ", "h", "o", "m", "e", " ", "o", "n", " ",
       "a", " ", "b", "u", "s", "y", " ", "c", "o", "r", "n", "e", "r", " ", "l",
       "o", "t", ".", " ", "S", "o", "l", "d", " ", "a", "s", " ", "i", "s", ",",
       " ", "c", "a", "s", "h", " ", "o", "n", "l", "y" >> }
\* the parameters of analyzeProperty: the list price is none or one of two
AnalyzeParams ==
  [ address : Addresses, listPrice : {Null, 850000, 899000}, listingText : ListingTexts ]

\* what analyzeProperty returns: the analysis produced for some parameters (by
\* Claude or mock), to the request with the parameters params
ServedTo(params, by, producedFor) ==
  [ key |-> getCacheKey(params), by |-> by, response |-> [analysisOf |-> producedFor],
    request |-> params ]

InitCache ==
  /\ profile = NoProfile
  /\ data = [ propertySnapshot |-> NoSnapshot, trustScore |-> 0,
              listPrice |-> Null, claims |-> <<>> ]
  /\ fitResult = NoFitResult
  /\ PageNotRendered
  /\ requests = [r \in RequestIds |-> IdleRequest]
  /\ db = [r \in RequestIds |-> NoRecord]
  /\ WizardClosed
  /\ clock = [now |-> StartClock, ticks |-> 0]
  /\ hasApiKey \in BOOLEAN
  /\ recentCalls = <<>>
  /\ usageStats = [totalCalls |-> 0, estimatedCost |-> 0]
  /\ cache = [k \in { getCacheKey(params) : params \in AnalyzeParams } |-> NoEntry]
  /\ calls = NoCalls
  /\ apiLog = [k \in CacheKeys |-> <<>>]
  /\ lastServed = NoneServed

\* analyzeProperty finds an analysis under the key of its parameters and
\* returns it
AnalyzeCached(params) ==
  LET key == getCacheKey(params) IN
  /\ calls.made < MaxCacheCalls
  /\ CacheHit(key, clock.now)
  /\ calls' = [calls EXCEPT !.made = @ + 1]
  /\ lastServed' = ServedTo(params, "cache", cache[key].response.analysisOf)
  /\ UNCHANGED <<NotAnalyzing, clock, hasApiKey, recentCalls, usageStats, cache, apiLog>>

\* analyzeProperty finds none: the analysis it produces (the mock data without an
\* API key or after a failed call, the response of Claude otherwise) is stored
\* under the key of its parameters and returned
AnalyzeStored(params) ==
  LET key == getCacheKey(params) IN
  /\ calls.made < MaxCacheCalls
  /\ ~CacheHit(key, clock.now)
  /\ cache' = setCachedAnalysis(CacheAfterLookup(key, clock.now), key,
                                [analysisOf |-> params], clock.now)
  /\ calls' = [calls EXCEPT !.made = @ + 1]
  /\ lastServed' = ServedTo(params, "fresh", params)
  /\ UNCHANGED <<NotAnalyzing, clock, hasApiKey, recentCalls, usageStats, apiLog>>

\* analyzeProperty finds none and the rate limiter refuses the call: the mock
\* data is returned and nothing is stored
AnalyzeNotStored(params) ==
  LET key == getCacheKey(params) IN
  /\ calls.made < MaxCacheCalls
  /\ hasApiKey
  /\ ~CacheHit(key, clock.now)
  /\ cache' = CacheAfterLookup(key, clock.now)
  /\ calls' = [calls EXCEPT !.made = @ + 1]
  /\ lastServed' = ServedTo(params, "blocked", params)
  /\ UNCHANGED <<NotAnalyzing, clock, hasApiKey, recentCalls, usageStats, apiLog>>

NextCache ==
  \/ \E params \in AnalyzeParams : AnalyzeCached(params)
  \/ \E params \in AnalyzeParams : AnalyzeStored(params)
  \/ \E params \in AnalyzeParams : AnalyzeNotStored(params)
  \/ Tick

SpecCache == InitCache /\ [][NextCache]_vars

---------------------------------------------------------------------------
(* components/BuyerProfileWizard.tsx, step 4: Features *)

\* the feature buttons the model clicks, and the needs the wizard starts with
WizardFeatures == {"single_story", "quiet_street", "garage"}
WizardNeeds ==
  { <<"none">>, <<"wheelchair_full">>, <<"sensory_sensitivity">>,
    <<"aging_in_place", "respiratory">> }

\* Array.prototype.filter(f => f !== feat)
Without(list, feat) == SelectSeq(list, LAMBDA f : f # feat)

\* suggestedMustHaves
suggestedMustHaves(p) ==
  (IF \E i \in 1..Len(p.accessibilityNeeds) :
        p.accessibilityNeeds[i] \in
          {"wheelchair_full", "wheelchair_occasional", "mobility_limited"}
     THEN <<"single_story", "wide_doorways", "accessible_bathroom", "no_step_entry">>
     ELSE <<>>)
  \o (IF Includes(p.accessibilityNeeds, "aging_in_place")
        THEN <<"single_story", "near_medical">> ELSE <<>>)
  \o (IF Includes(p.accessibilityNeeds, "sensory_sensitivity")
        THEN <<"quiet_street">> ELSE <<>>)
  \o (IF Includes(p.accessibilityNeeds, "respiratory")
        THEN <<"central_ac">> ELSE <<>>)

\* update(patch): setProfile(prev => ({ ...prev, ...patch })); a patch is a
\* function from some of the field names to their new values
update(prev, patch) ==
  [k \in DOMAIN prev |-> IF k \in DOMAIN patch THEN patch[k] ELSE prev[k]]

\* toggleFeature without the removal from the other lists
toggleFeatureKeepOthers(p, list, feat) ==
  LET current == p[list]
  IN  [l \in {list} |->
         IF Includes(current, feat) THEN Without(current, feat)
         ELSE Append(current, feat)]

\* toggleFeature(list, feat): the patch it passes to update, computed from the
\* profile p of the render
toggleFeature(p, list, feat) ==
  LET current == p[list]
      otherLists == {"mustHaves", "niceToHaves", "dealbreakers"} \ {list}
      patched == {list} \cup {other \in otherLists : Includes(p[other], feat)}
  IN  [l \in patched |->
         IF l = list
           THEN IF Includes(current, feat) THEN Without(current, feat)
                ELSE Append(current, feat)
           ELSE Without(p[l], feat)]

\* getFeatureStatus
getFeatureStatus(p, feat) ==
  IF Includes(p.mustHaves, feat) THEN "must"
  ELSE IF Includes(p.niceToHaves, feat) THEN "nice"
  ELSE IF Includes(p.dealbreakers, feat) THEN "deal"
  ELSE "none"

\* the lists of a profile are pairwise disjoint
Disjoint(p) ==
  \A f \in WizardFeatures :
    Cardinality({l \in {"mustHaves", "niceToHaves", "dealbreakers"} :
                   Includes(p[l], f)}) <= 1

\* the wizard opens on { ...DEFAULT_PROFILE, ...initialProfile }
InitWizard ==
  /\ \E m \in SeqsUpTo(WizardFeatures, 1), n \in SeqsUpTo(WizardFeatures, 1),
        d \in SeqsUpTo(WizardFeatures, 1), needs \in WizardNeeds :
       /\ wizard = [ mustHaves |-> m, niceToHaves |-> n, dealbreakers |-> d,
                     accessibilityNeeds |-> needs, clicked |-> NoClick ]
       /\ Disjoint(wizard)
  /\ profile = NoProfile
  /\ data = [ propertySnapshot |-> NoSnapshot, trustScore |-> 0,
              listPrice |-> Null, claims |-> <<>> ]
  /\ fitResult = NoFitResult
  /\ PageNotRendered
  /\ ServerIdle

\* a click on the button of a feature: the handler reads the profile of the
\* render and its updates are applied in order
ClickFeature(feat) ==
  LET p == wizard
      status == getFeatureStatus(p, feat)
      after ==
        CASE status = "none" -> update(p, toggleFeature(p, "mustHaves", feat))
          [] status = "must" ->
               update(update(p, [l \in {"mustHaves"} |-> Without(p.mustHaves, feat)]),
                      toggleFeature(p, "niceToHaves", feat))
          [] status = "nice" ->
               update(update(p, [l \in {"niceToHaves"} |-> Without(p.niceToHaves, feat)]),
                      toggleFeature(p, "dealbreakers", feat))
          [] OTHER ->
               update(p, [l \in {"dealbreakers"} |-> Without(p.dealbreakers, feat)])
  IN  /\ wizard' = [after EXCEPT !.clicked =
                      [kind |-> "feature", feat |-> feat, status |-> status]]
      /\ UNCHANGED <<profile, data, fitResult, pageVars, serverVars>>

\* a click on a suggested must-have, shown while the feature is not a must-have
ClickSuggested(feat) ==
  /\ Includes(suggestedMustHaves(wizard), feat)
  /\ ~Includes(wizard.mustHaves, feat)
  /\ wizard' = [update(wizard, toggleFeature(wizard, "mustHaves", feat))
                  EXCEPT !.clicked =
                    [kind |-> "suggested", feat |-> feat,
                     status |-> getFeatureStatus(wizard, feat)]]
  /\ UNCHANGED <<profile, data, fitResult, pageVars, serverVars>>

NextWizard ==
  \/ \E feat \in WizardFeatures : ClickFeature(feat)
  \/ \E feat \in WizardFeatures : ClickSuggested(feat)

SpecWizard == InitWizard /\ [][NextWizard]_vars

---------------------------------------------------------------------------
(* Properties of computeFitScore *)

Computed == fitResult # NoFitResult

\* the violated dealbreakers and the blocker flags the result reports
ReportsViolation ==
  \E i \in 1..Len(fitResult.missedFeatures) :
    /\ fitResult.missedFeatures[i].importance = "dealbreaker"
    /\ fitResult.missedFeatures[i].status = "violated"
ReportsBlocker ==
  \E i \in 1..Len(fitResult.accessibilityFlags) :
    fitResult.accessibilityFlags[i].severity = "blocker"

\* the price sources in priority order, and the first that is non-null and positive
PriceSources ==
  << data.listPrice >>
  \o (IF data.propertySnapshot = NoSnapshot THEN <<>>
      ELSE << data.propertySnapshot.taxAssessedValue,
              data.propertySnapshot.lastSalePrice >>)
UsablePrices == SelectSeq(PriceSources, LAMBDA x : x # Null /\ x > 0)
ExpectedPrice == IF UsablePrices = <<>> THEN Null ELSE Head(UsablePrices)

\* C1: for every valid input computeFitScore returns an overallScore in 0..100 and
\* a breakdown of six categories whose scores are each in 0..100.
C1_ScoreBounds ==
  Computed =>
    /\ fitResult.overallScore \in 0..100
    /\ Len(fitResult.breakdown) = 6
    /\ \A i \in 1..6 : fitResult.breakdown[i].score \in 0..100

\* a result where the bed and bath shortfalls exceed 100 points and Size & Layout is 0
C1_Witness ==
  /\ Computed
  /\ data.propertySnapshot # NoSnapshot
  /\ data.propertySnapshot.beds = 0
  /\ BedsPenalty(profile, data.propertySnapshot)
     + BathsPenalty(profile, data.propertySnapshot) > 100
  /\ fitResult.breakdown[2].score = 0

\* C2: whenever a dealbreaker of the profile is reported violated, or an
\* accessibility flag of the result has severity blocker, overallScore <= 25 and
\* the label is dealbreaker, whatever the six category scores are.
C2_HardCap ==
  (Computed /\ (ReportsViolation \/ ReportsBlocker)) =>
    /\ fitResult.overallScore <= 25
    /\ fitResult.label = "dealbreaker"

\* a violated dealbreaker on a result whose weighted average is above 25
C2_Witness ==
  /\ Computed
  /\ \E i \in 1..Len(profile.dealbreakers) :
       checkDealbreaker(profile.dealbreakers[i], data.propertySnapshot) = "violated"
  /\ ReportsViolation
  /\ WeightedAverage(fitResult.breakdown) > 25
  /\ fitResult.overallScore = 25

WeightOf(i) == fitResult.breakdown[i].weight
SumOfWeights == SumSeq([i \in 1..6 |-> WeightOf(i)])
DeclaresNeed == \E i \in 1..Len(profile.accessibilityNeeds) :
                  profile.accessibilityNeeds[i] # "none"

\* C3 as stated: the six weights sum to exactly 1, Accessibility weighs 0.30 with
\* a declared need and 0.05 without, and Lifestyle Fit weighs 1 minus the other five.
C3_WeightsSumToOne ==
  Computed =>
    /\ SumOfWeights = 100
    /\ WeightOf(3) = (IF DeclaresNeed THEN 30 ELSE 5)
    /\ WeightOf(6) = 100 - (WeightOf(1) + WeightOf(2) + WeightOf(3) + WeightOf(4)
                            + WeightOf(5))

\* C3 amended: Accessibility weighs 0.30 with a declared need and 0.05 without;
\* Lifestyle Fit weighs 1 minus the other five, floored at 0.05; so the six weights
\* sum to 1 when no need is declared and to 1.05 when one is, and the overall score
\* before the caps is the weighted sum divided by that sum of the weights.
C3_WeightsFloored ==
  Computed =>
    /\ WeightOf(1) = 25 /\ WeightOf(2) = 20 /\ WeightOf(4) = 15 /\ WeightOf(5) = 10
    /\ WeightOf(3) = (IF DeclaresNeed THEN 30 ELSE 5)
    /\ WeightOf(6) = (IF DeclaresNeed THEN 5 ELSE 25)
    /\ SumOfWeights = (IF DeclaresNeed THEN 105 ELSE 100)
    /\ (~ReportsViolation /\ ~ReportsBlocker
        /\ (ExpectedPrice = Null \/ ExpectedPrice <= profile.budgetStretch))
       => fitResult.overallScore =
            RoundDiv(SumSeq([i \in 1..6 |-> fitResult.breakdown[i].score * WeightOf(i)]),
                     SumOfWeights)

\* a profile with a declared need: the remainder is 0 and the floor applies
C3_Witness ==
  /\ Computed
  /\ DeclaresNeed
  /\ WeightOf(6) = 5
  /\ SumOfWeights = 105

AllMustHavesMatched ==
  \A i \in 1..Len(profile.mustHaves) :
    checkFeaturePresent(profile.mustHaves[i], data.propertySnapshot) = "matched"
NoNiceToHaveMissing ==
  \A i \in 1..Len(profile.niceToHaves) :
    checkFeaturePresent(profile.niceToHaves[i], data.propertySnapshot) # "missing"
InBudgetMatch ==
  /\ Computed
  /\ ~DeclaresNeed
  /\ profile.dealbreakers = <<>>
  /\ AllMustHavesMatched
  /\ ExpectedPrice # Null
  /\ ExpectedPrice <= profile.budgetMax

C5_WheelchairBlocker ==
  ( /\ Computed
    /\ Includes(profile.accessibilityNeeds, "wheelchair_full")
    /\ data.propertySnapshot # NoSnapshot
    /\ data.propertySnapshot.stories > 1 ) =>
    /\ ReportsBlocker
    /\ fitResult.overallScore <= 25
    /\ fitResult.label = "dealbreaker"

\* wheelchair_full on a three-story home with no dealbreaker in the profile
C5_Witness ==
  /\ Computed
  /\ Includes(profile.accessibilityNeeds, "wheelchair_full")
  /\ data.propertySnapshot # NoSnapshot
  /\ data.propertySnapshot.stories = 3
  /\ profile.dealbreakers = <<>>
  /\ ReportsBlocker
  /\ fitResult.label = "dealbreaker"

\* C6: the label is dealbreaker when a dealbreaker was violated or an accessibility
\* blocker exists; otherwise great_match for a score >= 75, good_match for 60..74,
\* fair for 40..59 and poor_match below 40.
C6_LabelDerivation ==
  Computed =>
    fitResult.label =
      CASE ReportsViolation \/ ReportsBlocker -> "dealbreaker"
        [] fitResult.overallScore \in 75..100 -> "great_match"
        [] fitResult.overallScore \in 60..74 -> "good_match"
        [] fitResult.overallScore \in 40..59 -> "fair"
        [] OTHER -> "poor_match"

\* a result at the lower edge of good_match, without a hard cap
C6_Witness ==
  /\ Computed
  /\ ~ReportsViolation /\ ~ReportsBlocker
  /\ fitResult.overallScore = 60
  /\ fitResult.label = "good_match"

\* C7: the price used for Budget Fit is the first of list price, tax-assessed value
\* and last sale price that is non-null and positive; when there is none (a null
\* snapshot with no list price included) Budget Fit is exactly 40 and its details
\* begin with "No price data available."
C7_EffectivePrice ==
  Computed =>
    /\ getEffectivePrice(data) = ExpectedPrice
    /\ ExpectedPrice = Null =>
         /\ fitResult.breakdown[1].score = 40
         /\ fitResult.breakdown[1].details = NoPriceDetails
    /\ ExpectedPrice # Null =>
         /\ fitResult.breakdown[1].details # NoPriceDetails
         /\ fitResult.breakdown[1].score = 100 <=> ExpectedPrice <= profile.budgetMax

\* the last sale price is used: the list price is 0 and the tax-assessed value null
C7_Witness ==
  /\ Computed
  /\ data.listPrice = 0
  /\ data.propertySnapshot # NoSnapshot
  /\ data.propertySnapshot.taxAssessedValue = Null
  /\ data.propertySnapshot.lastSalePrice > profile.budgetMax
  /\ fitResult.breakdown[1].score < 100

\* no price at all on a null snapshot
C7_WitnessNoPrice ==
  /\ Computed
  /\ data.listPrice = Null
  /\ data.propertySnapshot = NoSnapshot
  /\ fitResult.breakdown[1].score = 40

\* C8: an effective price more than 20% over budgetStretch gives overallScore <= 30,
\* one more than 10% over gives overallScore <= 40, and the caps never make the
\* overallScore higher than the rounded weighted average.
C8_BudgetCaps ==
  Computed =>
    /\ (ExpectedPrice # Null
        /\ (ExpectedPrice - profile.budgetStretch) * 100 > 20 * profile.budgetStretch)
       => fitResult.overallScore <= 30
    /\ (ExpectedPrice # Null
        /\ (ExpectedPrice - profile.budgetStretch) * 100 > 10 * profile.budgetStretch)
       => fitResult.overallScore <= 40
    /\ fitResult.overallScore <= WeightedAverage(fitResult.breakdown)

\* a price 30% over the stretch budget caps a weighted average above 40 at 30
C8_Witness ==
  /\ Computed
  /\ profile.budgetStretch > 0
  /\ ExpectedPrice # Null
  /\ (ExpectedPrice - profile.budgetStretch) * 100 = 30 * profile.budgetStretch
  /\ ~ReportsViolation /\ ~ReportsBlocker
  /\ WeightedAverage(fitResult.breakdown) > 40
  /\ fitResult.overallScore = 30

---------------------------------------------------------------------------
(* Properties of the results page *)

\* C9: for every claims list, the empty list included, the category summary has
\* exactly six entries, one per scoring category in enumeration order, and a
\* category with no claims has total, verified, unverified and contradictions 0.
C9_CategoryCompleteness ==
  rendered =>
    /\ Len(categorySummary) = 6
    /\ \A i \in 1..6 :
         /\ categorySummary[i].category = SCORING_CATEGORIES[i]
         /\ (\A j \in 1..Len(data.claims) :
               data.claims[j].category # SCORING_CATEGORIES[i])
            => /\ categorySummary[i].total = 0
               /\ categorySummary[i].verified = 0
               /\ categorySummary[i].unverified = 0
               /\ categorySummary[i].contradictions = 0

\* a render of claims that all lie in one category: the other five are all zero
C9_Witness ==
  /\ rendered
  /\ Len(data.claims) = 2
  /\ \A j \in 1..Len(data.claims) : data.claims[j].category = "record_mismatch"
  /\ categorySummary[1].total = 2
  /\ categorySummary[6].total = 0

---------------------------------------------------------------------------
(* Properties of POST /api/analyze *)

\* the per-field merge of the authoritative and the inferred snapshot
MergeField(authoritative, inferred, nullValue) ==
  IF authoritative # nullValue THEN authoritative ELSE inferred
MergedSnapshot(authoritative, inferred) ==
  IF authoritative = NoSnapshot /\ inferred = NoSnapshot THEN NoSnapshot
  ELSE LET a == IF authoritative = NoSnapshot THEN EmptySnapshot ELSE authoritative
           b == IF inferred = NoSnapshot THEN EmptySnapshot ELSE inferred
       IN  [ beds |-> MergeField(a.beds, b.beds, Null),
             baths |-> MergeField(a.baths, b.baths, Null),
             sqft |-> MergeField(a.sqft, b.sqft, Null),
             lotSqft |-> MergeField(a.lotSqft, b.lotSqft, Null),
             yearBuilt |-> MergeField(a.yearBuilt, b.yearBuilt, Null),
             stories |-> MergeField(a.stories, b.stories, Null),
             garage |-> MergeField(a.garage, b.garage, NullStr),
             hoa |-> MergeField(a.hoa, b.hoa, Null),
             zoning |-> MergeField(a.zoning, b.zoning, NullStr),
             taxAssessedValue |-> MergeField(a.taxAssessedValue, b.taxAssessedValue, Null),
             lastSaleDate |-> MergeField(a.lastSaleDate, b.lastSaleDate, NullStr),
             lastSalePrice |-> MergeField(a.lastSalePrice, b.lastSalePrice, Null) ]

\* C10: the property snapshot produced for an analysis is the per-field merge of
\* the external record and the inferred snapshot: per field the external value when
\* non-null, otherwise the inferred value, otherwise null; it is null only when both
\* inputs are null.
C10_SnapshotMerge ==
  \A r \in RequestIds :
    (requests[r].pc = "done" /\ db[r] # NoRecord /\ db[r].status = "complete") =>
      db[r].propertySnapshot =
        MergedSnapshot(requests[r].realieSnapshot, requests[r].result.propertySnapshot)

---------------------------------------------------------------------------
(* Properties of the feature and dealbreaker checks *)

\* the snapshot field a feature check reads, and whether the snapshot has it null
FeatureField(feat) ==
  CASE feat = "single_story" -> "stories"
    [] feat = "garage" -> "garage"
    [] feat \in {"no_hoa", "low_hoa"} -> "hoa"
    [] feat = "new_construction" -> "yearBuilt"
    [] feat = "yard" -> "lotSqft"
    [] OTHER -> "none"
ReadsNullField(feat, snapshot) ==
  /\ snapshot # NoSnapshot
  /\ FeatureField(feat) # "none"
  /\ IF FeatureField(feat) = "garage" THEN snapshot.garage = NullStr
     ELSE snapshot[FeatureField(feat)] = Null

\* C11: a null snapshot field is never treated as zero or false: every feature
\* check and every dealbreaker check that reads a snapshot field which is null
\* yields unknown, never matched, missing, violated or clear.
C11_NullNeverCoerced ==
  Computed =>
    /\ \A i \in 1..Len(profile.mustHaves) :
         ReadsNullField(profile.mustHaves[i], data.propertySnapshot) =>
           checkFeaturePresent(profile.mustHaves[i], data.propertySnapshot) = "unknown"
    /\ \A i \in 1..Len(profile.niceToHaves) :
         ReadsNullField(profile.niceToHaves[i], data.propertySnapshot) =>
           checkFeaturePresent(profile.niceToHaves[i], data.propertySnapshot) = "unknown"
    /\ \A i \in 1..Len(profile.dealbreakers) :
         (/\ ReadsNullField(profile.dealbreakers[i], data.propertySnapshot)
          /\ profile.dealbreakers[i] \in {"no_hoa", "single_story"}) =>
           checkDealbreaker(profile.dealbreakers[i], data.propertySnapshot) = "unknown"

\* whether a list of the result holds an entry for the feature with the importance
\* and one of the statuses
Lists(entries, feat, importance, statuses) ==
  \E j \in 1..Len(entries) :
    /\ entries[j].feature = feat
    /\ entries[j].importance = importance
    /\ entries[j].status \in statuses
\* the must-haves and nice-to-haves the feature predicate cannot determine
UndeterminedMustHaves ==
  { i \in 1..Len(profile.mustHaves) :
      checkFeaturePresent(profile.mustHaves[i], data.propertySnapshot) = "unknown" }
UndeterminedNiceToHaves ==
  { i \in 1..Len(profile.niceToHaves) :
      checkFeaturePresent(profile.niceToHaves[i], data.propertySnapshot) = "unknown" }
AllStatuses == {"matched", "missing", "unknown", "violated"}

\* C12 as stated: every must-have and every nice-to-have the feature predicate
\* cannot determine is in the result's feature lists with status unknown, and is
\* never reported as matched or missing.
C12_UnknownRecorded ==
  Computed =>
    /\ \A i \in UndeterminedMustHaves :
         /\ Lists(fitResult.missedFeatures, profile.mustHaves[i], "must_have", {"unknown"})
         /\ ~Lists(fitResult.matchedFeatures \o fitResult.missedFeatures,
                   profile.mustHaves[i], "must_have", {"matched", "missing"})
    /\ \A i \in UndeterminedNiceToHaves :
         /\ Lists(fitResult.matchedFeatures \o fitResult.missedFeatures,
                  profile.niceToHaves[i], "nice_to_have", {"unknown"})
         /\ ~Lists(fitResult.matchedFeatures \o fitResult.missedFeatures,
                   profile.niceToHaves[i], "nice_to_have", {"matched", "missing"})

\* C12 (amended): every must-have the feature predicate cannot determine is in
\* missedFeatures with status unknown and is never reported as matched or
\* missing; a nice-to-have the predicate cannot determine is in neither feature
\* list, so it is not reported as matched or missing either.
C12_MustHaveUnknownRecorded ==
  Computed =>
    /\ \A i \in UndeterminedMustHaves :
         /\ Lists(fitResult.missedFeatures, profile.mustHaves[i], "must_have", {"unknown"})
         /\ ~Lists(fitResult.matchedFeatures \o fitResult.missedFeatures,
                   profile.mustHaves[i], "must_have", {"matched", "missing"})
    /\ \A i \in UndeterminedNiceToHaves :
         ~Lists(fitResult.matchedFeatures \o fitResult.missedFeatures,
                profile.niceToHaves[i], "nice_to_have", AllStatuses)

\* a result for a profile with a must-have and a nice-to-have that the predicate
\* cannot determine
C12_Witness ==
  /\ Computed
  /\ UndeterminedMustHaves # {}
  /\ UndeterminedNiceToHaves # {}
  /\ Len(fitResult.missedFeatures) = 1

---------------------------------------------------------------------------
(* Properties of the pet suggestion *)

ShowsHoa ==
  /\ data.propertySnapshot # NoSnapshot
  /\ data.propertySnapshot.hoa # Null
  /\ data.propertySnapshot.hoa > 0
HasPetSuggestion ==
  \E i \in 1..Len(fitResult.suggestions) :
    /\ fitResult.suggestions[i].category = "ask_about"
    /\ fitResult.suggestions[i].title = "Pet policy check"
\* the result for the same inputs and a buyer without pets
WithoutPets ==
  computeFitScore([profile EXCEPT !.hasPets = FALSE, !.petTypes = <<>>], data)

\* C13: whenever the profile has hasPets = true and the snapshot shows an HOA
\* (hoa > 0), the suggestions contain an ask_about pet-policy suggestion, and
\* emitting it changes no score.
C13_PetSuggestion ==
  (Computed /\ profile.hasPets /\ ShowsHoa) =>
    /\ HasPetSuggestion
    /\ fitResult.overallScore = WithoutPets.overallScore
    /\ fitResult.breakdown = WithoutPets.breakdown
    /\ fitResult.label = WithoutPets.label

---------------------------------------------------------------------------
(* Properties of the results page's inputs *)

\* C14: inputs are read-only: computing the category summary, sorting the claims
\* for display and calling computeFitScore leave the claims list of the analysis
\* (its elements and their order) and the buyer profile unchanged.
C14_InputsReadOnly ==
  [][data'.claims = data.claims /\ profile' = profile]_vars

---------------------------------------------------------------------------
(* Properties of the wizard *)

\* C15: starting from a profile whose mustHaves, niceToHaves and dealbreakers
\* are pairwise disjoint, after any sequence of clicks on feature buttons and
\* suggested-must-have buttons no feature tag is in more than one of the three
\* sets.
C15_FeatureSetsDisjoint == Disjoint(wizard)

\* a suggested must-have that was a nice-to-have or a dealbreaker has been
\* clicked and is now a must-have
C15_Witness ==
  /\ wizard.clicked.kind = "suggested"
  /\ wizard.clicked.status \in {"nice", "deal"}
  /\ Includes(wizard.mustHaves, wizard.clicked.feat)

---------------------------------------------------------------------------
(* Properties of POST /api/analyze *)

\* the status changes of a record that the lifecycle allows
StatusSteps ==
  { <<"pending", "analyzing">>, <<"analyzing", "complete">>, <<"analyzing", "error">> }

\* C16: the status of an analysis record changes only along pending ->
\* analyzing -> complete or error: a record that is complete or error never
\* changes status again, no record moves from analyzing back to pending, and no
\* record disappears.
C16_StatusTransitions ==
  [][\A r \in RequestIds :
       db[r] # NoRecord =>
         /\ db'[r] # NoRecord
         /\ db'[r].status \in AnalysisStatus
         /\ (db'[r].status # db[r].status =>
               <<db[r].status, db'[r].status>> \in StatusSteps)]_vars

\* one record has gone from analyzing to complete and another from analyzing to
\* error
C16_Witness ==
  /\ \E r \in RequestIds : db[r] # NoRecord /\ db[r].status = "complete"
  /\ \E r \in RequestIds : db[r] # NoRecord /\ db[r].status = "error"

\* C17: POST /api/analyze ends with a completed analysis even when Claude is
\* unavailable: when the API key is missing or the call fails, analyzeProperty
\* returns mock analysis data instead of failing, and the record ends with
\* status complete.
C17_MockFallback ==
  \A r \in RequestIds :
    (requests[r].pc = "done" /\ requests[r].claudeError \in {"no_key", "call_failed"}) =>
      /\ requests[r].result # NoResponse
      /\ db[r].status = "complete"

---------------------------------------------------------------------------
(* Properties of the rate limiter, the cost tracker and the cache *)

\* the calls of anthropic.messages.create made so far: the cache key of the
\* request, its rank among the calls for the key, and the time it started
ApiCalls ==
  UNION { { [key |-> k, rank |-> i, time |-> apiLog[k][i]] : i \in 1..Len(apiLog[k]) } :
            k \in CacheKeys }
\* the calls started in the window of the given length that ends with call e
StartedWithin(e, window) ==
  { f \in ApiCalls : f.time <= e.time /\ f.time > e.time - window }

\* C18: under any interleaving of analyzeProperty requests at most 5 Claude API
\* calls are started within any 60-second window and at most 30 within any
\* hour, so a sixth request made within a minute of five others starts no call.
C18_RateLimits ==
  \A e \in ApiCalls :
    /\ Cardinality(StartedWithin(e, ONE_MINUTE)) <= MAX_CALLS_PER_MINUTE
    /\ Cardinality(StartedWithin(e, ONE_HOUR)) <= MAX_CALLS_PER_HOUR

\* C19: with every single call costing less than $0.50, the recorded estimated
\* cost is at most the $5.00 budget in every reachable state, under any
\* interleaving of the requests.
C19_CostWithinBudget ==
  (\A k \in CacheKeys :
     estimateCost(TokenUsage(k).input, TokenUsage(k).output) < 500000) =>
    usageStats.estimatedCost <= BUDGET_LIMIT

\* C20: for any two analyzeProperty requests with the same address, list price
\* and listing text issued less than 24 hours apart, at most one Claude API
\* call is made, under any interleaving: the other is served from the cache.
C20_OneCallPerKey ==
  \A e \in ApiCalls, f \in ApiCalls :
    (e.key = f.key /\ e.rank < f.rank) => f.time - e.time >= CACHE_TTL

---------------------------------------------------------------------------
(* Properties of the category scores *)

\* whether the result has a suggestion of the category, title and priority
Suggests(category, title, priority) ==
  \E i \in 1..Len(fitResult.suggestions) :
    /\ fitResult.suggestions[i].category = category
    /\ fitResult.suggestions[i].title = title
    /\ fitResult.suggestions[i].priority = priority
\* the amount by which the effective price exceeds the two budget ceilings
OverMax == ExpectedPrice - profile.budgetMax
OverStretch == ExpectedPrice - profile.budgetStretch
StretchRange == profile.budgetStretch - profile.budgetMax
\* the three cases of Budget Fit for a profile with budgetMax <= budgetStretch
WithinBudget == Computed /\ ExpectedPrice # Null /\ ExpectedPrice <= profile.budgetMax
WithinStretch ==
  /\ Computed /\ ExpectedPrice # Null
  /\ ExpectedPrice > profile.budgetMax /\ ExpectedPrice <= profile.budgetStretch
BeyondStretch == Computed /\ ExpectedPrice # Null /\ ExpectedPrice > profile.budgetStretch
\* what is common to C21 as stated and as amended: the score within the budget
\* and within the stretch range, and the two suggestions
BudgetFitUpToStretch ==
  /\ WithinBudget => fitResult.breakdown[1].score = 100
  /\ WithinStretch =>
       /\ fitResult.breakdown[1].score
            = RoundDiv(60 * StretchRange - 40 * OverMax, StretchRange)
       /\ fitResult.breakdown[1].score \in 20..60
       /\ Suggests("watch_out", "Over your preferred budget", "high")
  /\ BeyondStretch => Suggests("watch_out", "Significantly over budget", "high")

\* C21 as stated: Budget Fit is 100 for a price p <= budgetMax; for budgetMax < p
\* <= budgetStretch it is 60 - 40*(p - budgetMax)/(budgetStretch - budgetMax)
\* rounded (20 to 60), with a watch_out suggestion; for p > budgetStretch it is
\* max(0, 15 - pctOver/2), pctOver the percentage by which p exceeds
\* budgetStretch, with a high-priority suggestion.
C21_BudgetFitFormula ==
  /\ BudgetFitUpToStretch
  /\ (BeyondStretch /\ profile.budgetStretch > 0) =>
       \* score = max(0, 15 - pctOver/2), both sides times 2*budgetStretch
       2 * profile.budgetStretch * fitResult.breakdown[1].score
         = Max(0, 30 * profile.budgetStretch - 100 * OverStretch)
  /\ (BeyondStretch /\ profile.budgetStretch = 0) => fitResult.breakdown[1].score = 0

\* C21 (amended): the same, except that for p > budgetStretch Budget Fit is
\* max(0, 15 - round(pctOver/2)): half the percentage over budgetStretch is
\* rounded to the nearest integer before it is subtracted.
C21_BudgetFitRounded ==
  /\ BudgetFitUpToStretch
  /\ (BeyondStretch /\ profile.budgetStretch > 0) =>
       fitResult.breakdown[1].score
         = Max(0, 15 - RoundDiv(100 * OverStretch, 2 * profile.budgetStretch))
  /\ (BeyondStretch /\ profile.budgetStretch = 0) => fitResult.breakdown[1].score = 0

\* a price over the stretch budget by a percentage whose half is not an integer
C21_Witness ==
  /\ BeyondStretch
  /\ profile.budgetStretch > 0
  /\ (100 * OverStretch) % (2 * profile.budgetStretch) # 0
  /\ fitResult.breakdown[1].score > 0
  /\ Suggests("watch_out", "Significantly over budget", "high")

\* a price within the stretch range whose interpolated score is not an integer
\* before it is rounded
C21_WitnessInterpolated ==
  /\ WithinStretch
  /\ (40 * OverMax) % StretchRange # 0
  /\ fitResult.breakdown[1].score \in 21..59

\* the size fields of the snapshot, and the shortfalls the statement counts
HasSnapshot == data.propertySnapshot # NoSnapshot
BedsKnown == data.propertySnapshot.beds # Null
BathsKnown == data.propertySnapshot.baths # Null
SqftKnown == data.propertySnapshot.sqft # Null
BedroomsShort ==
  IF BedsKnown /\ data.propertySnapshot.beds < profile.bedsMin
    THEN profile.bedsMin - data.propertySnapshot.beds ELSE 0
BathsShort == BathsKnown /\ data.propertySnapshot.baths < profile.bathsMin
SqftShortPercent ==
  IF SqftKnown /\ data.propertySnapshot.sqft < profile.sqftMin
    THEN RoundDiv((profile.sqftMin - data.propertySnapshot.sqft) * 100, profile.sqftMin)
    ELSE 0
\* the penalties of the fields that are below the minimum and of those unknown
ShortfallPenalty ==
  25 * BedroomsShort + (IF BathsShort THEN 20 ELSE 0) + Min(35, SqftShortPercent)
UnknownPenalty ==
  (IF ~BedsKnown /\ profile.bedsMin > 0 THEN 10 ELSE 0)
  + (IF ~BathsKnown /\ profile.bathsMin > 0 THEN 5 ELSE 0)
  + (IF ~SqftKnown /\ profile.sqftMin > 0 THEN 10 ELSE 0)

\* C22: with a snapshot present, Size & Layout is 100 minus 25 per bedroom below
\* bedsMin, minus 20 if baths are below bathsMin, minus min(35, rounded percentage
\* by which sqft falls short of sqftMin), minus 10, 5 and 10 for unknown beds,
\* baths and sqft whose minimum is set, clamped to 0..100; with no snapshot it is
\* exactly 35.
C22_SizeScore ==
  Computed =>
    fitResult.breakdown[2].score =
      IF HasSnapshot
        THEN Max(0, Min(100, 100 - ShortfallPenalty - UnknownPenalty))
        ELSE 35

\* a snapshot one bedroom short, with the bath count unknown and less than two
\* thirds of the square footage wanted
C22_Witness ==
  /\ Computed
  /\ HasSnapshot
  /\ BedroomsShort = 1
  /\ ~BathsKnown /\ profile.bathsMin > 0
  /\ SqftShortPercent > 35
  /\ fitResult.breakdown[2].score = 100 - 25 - 5 - 35

\* the snapshot of the analysis with one field unknown, everything else equal
SnapshotWithout(field) == [data.propertySnapshot EXCEPT ![field] = Null]

\* C23: for each of beds, baths and sqft, with everything else equal, the Size &
\* Layout penalty when the field is unknown (10, 5 and 10) is smaller than the
\* penalty when the field is known and below the buyer's minimum.
C23_UnknownCheaperThanMiss ==
  (Computed /\ HasSnapshot) =>
    /\ (BedsKnown /\ data.propertySnapshot.beds < profile.bedsMin) =>
         /\ BedsPenalty(profile, SnapshotWithout("beds")) = 10
         /\ 10 < BedsPenalty(profile, data.propertySnapshot)
    /\ (BathsKnown /\ data.propertySnapshot.baths < profile.bathsMin) =>
         /\ BathsPenalty(profile, SnapshotWithout("baths")) = 5
         /\ 5 < BathsPenalty(profile, data.propertySnapshot)
    /\ (SqftKnown /\ data.propertySnapshot.sqft < profile.sqftMin) =>
         /\ SqftPenalty(profile, SnapshotWithout("sqft")) = 10
         /\ 10 < SqftPenalty(profile, data.propertySnapshot)

---------------------------------------------------------------------------
(* Properties of the accessibility rules *)

\* the needs the rules on stories are stated for
StairsNeeds ==
  {"wheelchair_full", "wheelchair_occasional", "mobility_limited", "chronic_fatigue"}
Stories == IF HasSnapshot THEN data.propertySnapshot.stories ELSE Null
\* what a need costs and the severity of its flag, as stated, by the stories
StatedCost(need) ==
  IF Stories = Null THEN 15
  ELSE IF Stories > 1 THEN (IF need = "wheelchair_full" THEN 50 ELSE 25)
  ELSE 0
StatedSeverity(need) ==
  IF Stories = Null THEN "concern"
  ELSE IF Stories > 1 THEN (IF need = "wheelchair_full" THEN "blocker" ELSE "concern")
  ELSE "manageable"
FlagsNeed(need, severity) ==
  \E j \in 1..Len(fitResult.accessibilityFlags) :
    /\ fitResult.accessibilityFlags[j].need = need
    /\ fitResult.accessibilityFlags[j].severity = severity
DeclaredStairsNeeds ==
  { i \in 1..Len(profile.accessibilityNeeds) : profile.accessibilityNeeds[i] \in StairsNeeds }
OnlyStairsNeeds ==
  \A i \in 1..Len(profile.accessibilityNeeds) :
    profile.accessibilityNeeds[i] \in StairsNeeds \cup {"none"}

\* C24: each declared wheelchair, mobility_limited or chronic_fatigue need costs
\* 50 (wheelchair_full, flag blocker) or 25 (the others, flag concern) on a
\* snapshot with more than one story, costs nothing and adds a manageable flag on
\* one with exactly one story, and costs 15 and adds a concern flag when the
\* stories are unknown.
C24_StairsRules ==
  (Computed /\ Stories # 0) =>
    /\ \A i \in DeclaredStairsNeeds :
         FlagsNeed(profile.accessibilityNeeds[i],
                   StatedSeverity(profile.accessibilityNeeds[i]))
    /\ OnlyStairsNeeds =>
         fitResult.breakdown[3].score =
           Max(0, 100 - SumSeq([i \in 1..Len(profile.accessibilityNeeds) |->
                                  IF i \in DeclaredStairsNeeds
                                    THEN StatedCost(profile.accessibilityNeeds[i])
                                    ELSE 0]))

---------------------------------------------------------------------------
(* Properties of Feature Match *)

\* how many tags of a list the check gives the status
CountStatus(list, Check(_, _), status) ==
  Cardinality({ i \in 1..Len(list) : Check(list[i], data.propertySnapshot) = status })
FeaturePenalties ==
  18 * CountStatus(profile.mustHaves, checkFeaturePresent, "missing")
  + 8 * CountStatus(profile.mustHaves, checkFeaturePresent, "unknown")
  + 5 * CountStatus(profile.niceToHaves, checkFeaturePresent, "missing")
  + 50 * CountStatus(profile.dealbreakers, checkDealbreaker, "violated")

\* C25: Feature Match is 100 - 18*(must-haves missing) - 8*(must-haves unknown)
\* - 5*(nice-to-haves missing) - 50*(dealbreakers violated), clamped to 0..100;
\* matched must-haves and nice-to-haves cost nothing and are listed in
\* matchedFeatures, and every violated dealbreaker is listed in missedFeatures.
C25_FeatureMatch ==
  Computed =>
    /\ fitResult.breakdown[4].score = Max(0, Min(100, 100 - FeaturePenalties))
    /\ \A i \in 1..Len(profile.mustHaves) :
         checkFeaturePresent(profile.mustHaves[i], data.propertySnapshot) = "matched"
           => Lists(fitResult.matchedFeatures, profile.mustHaves[i], "must_have",
                    {"matched"})
    /\ \A i \in 1..Len(profile.niceToHaves) :
         checkFeaturePresent(profile.niceToHaves[i], data.propertySnapshot) = "matched"
           => Lists(fitResult.matchedFeatures, profile.niceToHaves[i], "nice_to_have",
                    {"matched"})
    /\ \A i \in 1..Len(profile.dealbreakers) :
         checkDealbreaker(profile.dealbreakers[i], data.propertySnapshot) = "violated"
           => Lists(fitResult.missedFeatures, profile.dealbreakers[i], "dealbreaker",
                    {"violated"})

\* two violated dealbreakers, a missing must-have and a missing nice-to-have: the
\* penalties exceed 100 and Feature Match is clamped to 0
C25_Witness ==
  /\ Computed
  /\ CountStatus(profile.dealbreakers, checkDealbreaker, "violated") = 2
  /\ CountStatus(profile.mustHaves, checkFeaturePresent, "missing") = 1
  /\ CountStatus(profile.niceToHaves, checkFeaturePresent, "missing") = 1
  /\ FeaturePenalties = 123
  /\ fitResult.breakdown[4].score = 0
  /\ Len(fitResult.missedFeatures) = 4

\* a matched must-have and a missing nice-to-have: 95
C25_WitnessMatched ==
  /\ Computed
  /\ CountStatus(profile.mustHaves, checkFeaturePresent, "matched") = 1
  /\ CountStatus(profile.niceToHaves, checkFeaturePresent, "missing") = 1
  /\ fitResult.breakdown[4].score = 95
  /\ Len(fitResult.matchedFeatures) = 1

---------------------------------------------------------------------------
(* Properties of the cache key *)

\* what a request is identified by: its normalized address, its list price and
\* the first 50 characters of its listing text
Identity(params) ==
  [ address |-> trim(toLowerCase(params.address)),
    listPrice |-> params.listPrice,
    listingText |-> IF params.listingText = NoText THEN NoText
                    ELSE slice(params.listingText, 50) ]

\* C26: getCachedAnalysis returns a stored response only to a request whose
\* normalized address, list price and first 50 characters of listing text all
\* equal those of the request that stored it: two requests that differ in any
\* of these never share a cache entry.
C26_CacheKeyIsolation ==
  lastServed.by = "cache" =>
    Identity(lastServed.request) = Identity(lastServed.response.analysisOf)

---------------------------------------------------------------------------
(* Properties of the records of POST /api/analyze *)

\* C27: every POST /api/analyze request that creates an analysis record leaves
\* it in status complete or error by the time it responds: no record remains
\* in status analyzing after its request has finished, including when
\* persisting the results fails.
C27_NoRecordLeftAnalyzing ==
  \A r \in RequestIds :
    (requests[r].pc = "done" /\ db[r] # NoRecord) =>
      db[r].status \in {"complete", "error"}

---------------------------------------------------------------------------
(* Properties of the price the results page scores *)

\* the results page shows the record of a request that came without a list
\* price and for which Zillow gave none
ViewsUnpricedAnalysis ==
  /\ Computed
  /\ "id" \in DOMAIN data
  /\ requests[data.id].listPrice = Null
  /\ requests[data.id].zillowListPrice = Null
\* the stored snapshot has a positive tax-assessed value
HasTaxAssessedValue ==
  /\ HasSnapshot
  /\ data.propertySnapshot.taxAssessedValue # Null
  /\ data.propertySnapshot.taxAssessedValue > 0
\* the last sale prices there are: the one of the stored snapshot and the one of
\* the Realie record of the request
LastSalePrices ==
  (IF HasSnapshot THEN {data.propertySnapshot.lastSalePrice} ELSE {})
  \cup (IF requests[data.id].realieSnapshot # NoSnapshot
          THEN {requests[data.id].realieSnapshot.lastSalePrice} ELSE {})

\* C28: for an analysis created without a user-supplied or Zillow-scraped list
\* price, the price used for Budget Fit on the results page follows the
\* engine's priority: a positive tax-assessed value of the stored snapshot is
\* used in preference to a last sale price, which is used only when there is no
\* tax-assessed value.
C28_PricePriorityKept ==
  ViewsUnpricedAnalysis =>
    /\ HasTaxAssessedValue =>
         /\ getEffectivePrice(data) = data.propertySnapshot.taxAssessedValue
         /\ fitResult.breakdown[1]
              = computeFitScore(profile, [data EXCEPT !.listPrice = Null]).breakdown[1]
    /\ ~HasTaxAssessedValue =>
         getEffectivePrice(data) \in LastSalePrices \cup {Null}

---------------------------------------------------------------------------
(* Properties relating the dealbreaker check to the feature check *)

ViolatedEntries ==
  { j \in 1..Len(fitResult.missedFeatures) :
      fitResult.missedFeatures[j].status = "violated" }

---------------------------------------------------------------------------
(* Properties of the cached mock fallback *)

\* the rate and budget limits permit a call now
LimitsPermit ==
  canMakeClaudeCall(usageStats, CleanOldCalls(recentCalls, clock.now), clock.now)

\* C30: after a Claude call for a request has failed and been answered with the
\* mock fallback, a later identical request made when the API key is there and
\* the rate and budget limits permit results in a new Claude call: it is not
\* served the earlier mock result.
C30_MockNotServedAgain ==
  [][\A key \in CacheKeys :
       ~ /\ hasApiKey
         /\ LimitsPermit
         /\ cache[key] # NoEntry
         /\ cache[key].response = "mock"
         /\ ServeCached(key)]_vars

====
